---- MODULE Spec2Model ----
(***************************************************************************)
(* Verification model of tespy/components/combustion.py: the generic       *)
(* combustion chamber, the stoichiometric combustion chamber and the       *)
(* combustion engine.                                                      *)
(*                                                                         *)
(* Numbers.  Every real quantity is an exact rational <<num, den>> in      *)
(* lowest terms with den > 0.  Residual arithmetic is carried out exactly. *)
(* The in-place updates of a stream's mass flow (+=, -=) round the stored  *)
(* value as an IEEE binary float does (round to nearest, ties to even),    *)
(* here with a significand of MantBits bits over a quantum of 1e-4 kg/s.   *)
(* A float division by zero raises ZeroDivisionError, as it does for the   *)
(* Python floats that set_attr and the initialisation store.               *)
(***************************************************************************)
EXTENDS Integers, Sequences, FiniteSets, TLC

\* ------------------------------------------------------------------------
\* Bounds of the model
\* ------------------------------------------------------------------------
\* width of the significand of a stored mass flow
MantBits == 12

\* ------------------------------------------------------------------------
\* Exact rational arithmetic
\* ------------------------------------------------------------------------
Abs(x) == IF x < 0 THEN -x ELSE x

RECURSIVE GCD(_, _)
GCD(a, b) == IF b = 0 THEN a ELSE GCD(b, a % b)

Norm(n, d) ==
    LET g == GCD(Abs(n), Abs(d))
        s == IF d < 0 THEN -1 ELSE 1
    IN  <<(s * n) \div g, (s * d) \div g>>

R(n) == <<n, 1>>
Q(n, d) == Norm(n, d)
Zero == <<0, 1>>
One == <<1, 1>>

RNeg(a) == <<-a[1], a[2]>>

RAdd(a, b) ==
    LET g == GCD(a[2], b[2])
    IN  Norm(a[1] * (b[2] \div g) + b[1] * (a[2] \div g), (a[2] \div g) * b[2])

RSub(a, b) == RAdd(a, RNeg(b))

RMul(a, b) ==
    LET g1 == GCD(Abs(a[1]), b[2])
        g2 == GCD(Abs(b[1]), a[2])
    IN  IF a[1] = 0 \/ b[1] = 0 THEN Zero
        ELSE <<(a[1] \div g1) * (b[1] \div g2), (a[2] \div g2) * (b[2] \div g1)>>

\* only used with b # 0: every caller tests the divisor first
RDiv(a, b) ==
    IF b[1] > 0 THEN RMul(a, <<b[2], b[1]>>) ELSE RMul(a, <<-b[2], -b[1]>>)

\* comparison by the integer parts first, then by the remainders
RFloor(a) == a[1] \div a[2]
RLt(a, b) ==
    LET fa == RFloor(a)
        fb == RFloor(b)
    IN  IF fa # fb THEN fa < fb
        ELSE (a[1] - fa * a[2]) * b[2] < (b[1] - fb * b[2]) * a[2]
RLe(a, b) == ~RLt(b, a)
RGt(a, b) == RLt(b, a)
RGe(a, b) == RLe(b, a)
RAbs(a) == <<Abs(a[1]), a[2]>>
IsZero(a) == a[1] = 0

RECURSIVE RSum(_, _, _)
\* sum of f[i] for i in lo..hi
RSum(f, lo, hi) == IF lo > hi THEN Zero ELSE RAdd(f[lo], RSum(f, lo + 1, hi))

RECURSIVE Pow2(_)
Pow2(k) == IF k = 0 THEN 1 ELSE 2 * Pow2(k - 1)

\* a local variable: F applied to the value v, which is computed once
Bind(v, F(_)) == F(v)

\* ------------------------------------------------------------------------
\* Fluids, fuels and their chemistry
\* ------------------------------------------------------------------------
\* fluid names a network can declare, in the network's (sorted) key order
Species == <<"Ar", "CH4", "CO2", "H2", "H2O", "N2", "O2">>
SpeciesSet == {Species[k] : k \in 1..Len(Species)}

\* the fuels comp_init looks for, in the order of its list `fuels`
\* (methane, ethane, propane, butane, hydrogen), by the network name that
\* is an alias of the fuel; ethane, propane and butane have no alias among
\* the species of this model
SupportedFuels == <<"CH4", "H2">>
SupportedFuelSet == {"CH4", "H2"}

\* fluid_structure(f): atom counts of a fuel
fluid_structure ==
    [f \in SupportedFuelSet |->
        IF f = "CH4" THEN [C |-> 1, H |-> 4, O |-> 0]
        ELSE [C |-> 0, H |-> 2, O |-> 0]]

\* molar_masses[f] in kg/mol, as reduced fractions: 0.016, 0.002, 0.032,
\* 0.044, 0.018, 0.028 and, for argon and the mixtures, 0.040
molar_masses ==
    [f \in SpeciesSet |->
        CASE f = "CH4" -> <<2, 125>>
          [] f = "H2"  -> <<1, 500>>
          [] f = "O2"  -> <<4, 125>>
          [] f = "CO2" -> <<11, 250>>
          [] f = "H2O" -> <<9, 500>>
          [] f = "N2"  -> <<7, 250>>
          [] OTHER     -> <<1, 25>>]

\* molar formation enthalpies hf in kJ/mol, as declared in calc_lhv:
\* -74.85, 0, 0, -393.5, -241.8
hf ==
    [f \in SpeciesSet |->
        CASE f = "CH4" -> <<-1497, 20>>
          [] f = "H2"  -> <<0, 1>>
          [] f = "O2"  -> <<0, 1>>
          [] f = "CO2" -> <<-787, 2>>
          [] f = "H2O" -> <<-1209, 5>>
          [] OTHER     -> <<0, 1>>]

\* the filter of a sequence, keeping its order
RECURSIVE SelectIn(_, _)
SelectIn(seq, S) ==
    IF seq = <<>> THEN <<>>
    ELSE IF Head(seq) \in S THEN <<Head(seq)>> \o SelectIn(Tail(seq), S)
         ELSE SelectIn(Tail(seq), S)

\* combustion_chamber.calc_lhv(f)
calc_lhv_products_only(f) ==
    LET n == fluid_structure[f]
    IN  RMul(RDiv(RNeg(RSub(RAdd(RMul(Q(n.H, 2), hf["H2O"]),
                                  RMul(R(n.C), hf["CO2"])),
                             RMul(RAdd(R(n.C), Q(n.H, 4)), hf["O2"]))),
                  molar_masses[f]),
             R(1000))

calc_lhv(f) ==
    LET n == fluid_structure[f]
    IN  RMul(RDiv(RNeg(RSub(RAdd(RMul(Q(n.H, 2), hf["H2O"]),
                                  RMul(R(n.C), hf["CO2"])),
                             RAdd(RMul(RAdd(R(n.C), Q(n.H, 4)), hf["O2"]),
                                  hf[f]))),
                  molar_masses[f]),
             R(1000))

\* ------------------------------------------------------------------------
\* The component object and its streams
\* ------------------------------------------------------------------------
\* A stream (connection) is a record
\*   [m, p, h : rationals (val_SI), fluid : [key -> rational] (fluid.val),
\*    m_set, h_set : BOOLEAN (val_set), fluid_set : [key -> BOOLEAN],
\*    init_csv : BOOLEAN].
\* The component `self` is passed to the operators below as a record c with
\* the fields variant, fluids (ordered keys of fluid.val), fuel_list, inl,
\* outl, lamb = [val, is_set], ti = [val, is_set], aliases and air_min/lhv
\* of the stoichiometric chamber.

RECURSIVE RSumSeq(_)
RSumSeq(seq) == IF seq = <<>> THEN Zero ELSE RAdd(Head(seq), RSumSeq(Tail(seq)))

\* inl / outl as selected at the head of reaction_balance, lambda_func and
\* convergence_check: self.inl[2:], self.outl[2:] for the engine
CombInlWithLoops(c) == c.inl

CombInl(c) ==
    IF c.variant = "engine" THEN SubSeq(c.inl, 3, Len(c.inl)) ELSE c.inl
CombOutl(c) ==
    IF c.variant = "engine" THEN SubSeq(c.outl, 3, Len(c.outl)) ELSE c.outl
\* offset of the combustion streams inside inl / outl
CombOff(c) == IF c.variant = "engine" THEN 2 ELSE 0

\* i.m.val_SI * i.fluid.val[f] / molar_masses[f]
MolarFlow(i, f) == RDiv(RMul(i.m, i.fluid[f]), molar_masses[f])

\* n_fuel[f] of reaction_balance
rb_n_fuel(c, f) ==
    RSumSeq([k \in 1..Len(CombInl(c)) |-> MolarFlow(CombInl(c)[k], f)])

\* n_h and n_c of reaction_balance: every inlet's molar flow counted once
rb_n_h(c) ==
    RSumSeq([j \in 1..Len(c.fuel_list) |->
        RMul(rb_n_fuel(c, c.fuel_list[j]),
             R(fluid_structure[c.fuel_list[j]].H))])
rb_n_c(c) ==
    RSumSeq([j \in 1..Len(c.fuel_list) |->
        RMul(rb_n_fuel(c, c.fuel_list[j]),
             R(fluid_structure[c.fuel_list[j]].C))])

\* H / 4 + C of a fuel: the oxygen one mole of it needs
OxygenPerMole(f) == Q(fluid_structure[f].H + 4 * fluid_structure[f].C, 4)

\* n_oxygen
rb_n_oxygen(c) ==
    RSumSeq([k \in 1..Len(CombInl(c)) |-> MolarFlow(CombInl(c)[k], "O2")])

\* a variant that adds the outlets instead of subtracting them
InOutBalanceAdded(inl_, outl_, fluid) ==
    RAdd(RSumSeq([k \in 1..Len(inl_) |-> RMul(inl_[k].fluid[fluid], inl_[k].m)]),
         RSumSeq([k \in 1..Len(outl_) |-> RMul(outl_[k].fluid[fluid], outl_[k].m)]))

\* sum of inlet minus sum of outlet mass flows of one fluid (the tail of
\* reaction_balance)
InOutBalance(inl_, outl_, fluid) ==
    RSub(RSumSeq([k \in 1..Len(inl_) |-> RMul(inl_[k].fluid[fluid], inl_[k].m)]),
         RSumSeq([k \in 1..Len(outl_) |-> RMul(outl_[k].fluid[fluid], outl_[k].m)]))

\* the variable f that the fuel loop of reaction_balance leaves behind: the
\* last entry of fuel_list
rb_f_leaked(c) == c.fuel_list[Len(c.fuel_list)]

\* n_fuel_exc of the fuel equation for lambda < 1:
\* -(n_oxygen / n_oxygen_stoich - 1) * n_oxy_stoich[fluid] * (H / 4 + C),
\* with H and C read from self.fuels[f] of the leaked f
rb_n_fuel_exc(c, fluid, n_fuel, n_oxygen, n_oxygen_stoich) ==
    RMul(RMul(RNeg(RSub(RDiv(n_oxygen, n_oxygen_stoich), One)),
              RMul(n_fuel, OxygenPerMole(fluid))),
         OxygenPerMole(rb_f_leaked(c)))

\* a variant without the guard `if not self.lamb.is_set`: lambda is computed
\* from the inlets on every call
rb_lamb_unguarded(c, n_oxygen, n_oxygen_stoich) ==
    RDiv(n_oxygen, n_oxygen_stoich)

\* the lambda that reaction_balance works with: computed when not set
rb_lamb(c, n_oxygen, n_oxygen_stoich) ==
    IF c.lamb.is_set THEN c.lamb.val ELSE RDiv(n_oxygen, n_oxygen_stoich)

FuelSetOf(c) == {c.fuel_list[j] : j \in 1..Len(c.fuel_list)}

\* a variant that never takes carbon out of the products
rb_n_c_exc_none(rich, n_exc) == Zero

\* a variant that takes the hydrogen out whatever lambda is
rb_n_h_exc_always(rich, n_exc) == RMul(n_exc, R(4))

\* n_c_exc and n_h_exc: the carbon and hydrogen that find no oxygen when
\* lambda < 1 (rich), n_exc being n_oxygen_stoich - n_oxygen
rb_n_c_exc(rich, n_exc) == IF rich THEN n_exc ELSE Zero
rb_n_h_exc(rich, n_exc) == IF rich THEN RMul(n_exc, R(4)) ELSE Zero

\* the net production term dm of reaction_balance, from the sums n_h, n_c,
\* n_oxygen and n_oxygen_stoich computed at its head; n_exc stands for
\* n_oxygen_stoich - n_oxygen, from which n_h_exc and n_c_exc are taken
rb_dm(c, fluid, lam, rich, n_h, n_c, n_oxygen, n_oxygen_stoich, n_exc) ==
    CASE fluid = "CO2" ->
          RMul(RSub(n_c, rb_n_c_exc(rich, n_exc)), molar_masses["CO2"])
      [] fluid = "H2O" ->
          RMul(RDiv(RSub(n_h, rb_n_h_exc(rich, n_exc)), R(2)),
               molar_masses["H2O"])
      [] fluid = "O2" ->
          IF rich THEN RNeg(RMul(n_oxygen, molar_masses["O2"]))
          ELSE RNeg(RMul(RDiv(n_oxygen, lam), molar_masses["O2"]))
      [] fluid \in FuelSetOf(c) ->
          Bind(rb_n_fuel(c, fluid), LAMBDA n_fuel :
              RNeg(RMul(RSub(n_fuel,
                             IF rich
                             THEN rb_n_fuel_exc(c, fluid, n_fuel, n_oxygen,
                                                n_oxygen_stoich)
                             ELSE Zero),
                        molar_masses[fluid])))
      [] OTHER -> Zero

\* a variant that computes lambda into a local variable and leaves
\* self.lamb.val alone
rb_tail_uncached(c, fluid, n_h, n_c, n_oxygen, n_oxygen_stoich) ==
    IF ~c.lamb.is_set /\ IsZero(n_oxygen_stoich)
    THEN [err |-> "ZeroDivisionError", res |-> Zero, c |-> c, wrote |-> FALSE]
    ELSE Bind(rb_lamb(c, n_oxygen, n_oxygen_stoich), LAMBDA lam :
        IF fluid \in FuelSetOf(c) /\ RLt(lam, One) /\ IsZero(n_oxygen_stoich)
        THEN [err |-> "ZeroDivisionError", res |-> Zero, c |-> c, wrote |-> FALSE]
        ELSE [err |-> "", wrote |-> FALSE, c |-> c,
              res |-> RAdd(rb_dm(c, fluid, lam, RLt(lam, One), n_h, n_c, n_oxygen,
                                 n_oxygen_stoich,
                                 RSub(n_oxygen_stoich, n_oxygen)),
                           InOutBalance(CombInl(c), CombOutl(c), fluid))])

\* reaction_balance from the line that computes lambda on
rb_tail(c, fluid, n_h, n_c, n_oxygen, n_oxygen_stoich) ==
    IF ~c.lamb.is_set /\ IsZero(n_oxygen_stoich)
    THEN [err |-> "ZeroDivisionError", res |-> Zero, c |-> c, wrote |-> FALSE]
    ELSE Bind(rb_lamb(c, n_oxygen, n_oxygen_stoich), LAMBDA lam :
        IF fluid \in FuelSetOf(c) /\ RLt(lam, One) /\ IsZero(n_oxygen_stoich)
        THEN [err |-> "ZeroDivisionError", res |-> Zero,
              c |-> [c EXCEPT !.lamb.val = lam], wrote |-> ~c.lamb.is_set]
        ELSE [err |-> "", wrote |-> ~c.lamb.is_set,
              c |-> [c EXCEPT !.lamb.val = lam],
              res |-> RAdd(rb_dm(c, fluid, lam, RLt(lam, One), n_h, n_c, n_oxygen,
                                 n_oxygen_stoich,
                                 RSub(n_oxygen_stoich, n_oxygen)),
                           InOutBalance(CombInl(c), CombOutl(c), fluid))])

\* reaction_balance after n_h and n_c: n_oxygen_stoich = n_h / 4 + n_c
rb_sums(c, fluid, n_h, n_c) ==
    rb_tail(c, fluid, n_h, n_c, rb_n_oxygen(c), RAdd(RDiv(n_h, R(4)), n_c))

\* combustion_chamber.reaction_balance(fluid): the residual, the component
\* with lamb.val as the call leaves it, and the error the call raises
reaction_balance_generic(c, fluid) ==
    rb_sums(c, fluid, rb_n_h(c), rb_n_c(c))

\* ------------------------------------------------------------------------
\* Stoichiometric combustion chamber: reaction balance
\* ------------------------------------------------------------------------
\* 'TESPy::' + alias and 'TESPy::' + alias + '_fg'
TESPyName(alias) ==
    CASE alias = "myFuel" -> "TESPy::myFuel"
      [] alias = "myAir"  -> "TESPy::myAir"
      [] OTHER            -> "TESPy::TESPy::"
TESPyFgName(alias) ==
    CASE alias = "myFuel" -> "TESPy::myFuel_fg"
      [] OTHER            -> "TESPy::TESPy::_fg"

\* the names air, fuel and flue_gas at the head of the stoichiometric methods
AirName(c) ==
    IF c.air_alias.val \in {"air", "Air"} THEN c.air_alias.val
    ELSE TESPyName(c.air_alias.val)
FuelName(c) == TESPyName(c.fuel_alias.val)
FlueGasName(c) == TESPyFgName(c.fuel_alias.val)

\* m_fuel and m_air of the stoichiometric reaction_balance
st_m_fuel(c) ==
    RSumSeq([k \in 1..Len(c.inl) |-> RMul(c.inl[k].m, c.inl[k].fluid[FuelName(c)])])
st_m_air(c) ==
    RSumSeq([k \in 1..Len(c.inl) |-> RMul(c.inl[k].m, c.inl[k].fluid[AirName(c)])])

\* reaction_balance of the stoichiometric chamber from the line that
\* computes lambda on
rb_stoich_tail(c, fluid, m_fuel, m_air, m_air_min, lam) ==
    IF RLt(lam, One) /\ IsZero(RMul(lam, c.air_min))
    THEN [err |-> "ZeroDivisionError", res |-> Zero,
          c |-> [c EXCEPT !.lamb.val = lam], wrote |-> ~c.lamb.is_set]
    ELSE [err |-> "", wrote |-> ~c.lamb.is_set,
          c |-> [c EXCEPT !.lamb.val = lam],
          res |-> RAdd(CASE fluid = AirName(c) ->
                              IF RGe(lam, One) THEN RNeg(m_air_min) ELSE RNeg(m_air)
                         [] fluid = FuelName(c) ->
                              IF RLt(lam, One)
                              THEN RNeg(RSub(m_fuel,
                                     RSub(m_fuel,
                                          RDiv(m_air, RMul(lam, c.air_min)))))
                              ELSE RNeg(RSub(m_fuel, Zero))
                         [] fluid = FlueGasName(c) -> RAdd(m_air_min, m_fuel)
                         [] OTHER -> Zero,
                       InOutBalance(c.inl, c.outl, fluid))]

rb_stoich_sums(c, fluid, m_fuel, m_air, m_air_min) ==
    IF ~c.lamb.is_set /\ IsZero(m_air_min)
    THEN [err |-> "ZeroDivisionError", res |-> Zero, c |-> c, wrote |-> FALSE]
    ELSE rb_stoich_tail(c, fluid, m_fuel, m_air, m_air_min,
                        IF c.lamb.is_set THEN c.lamb.val
                        ELSE RDiv(m_air, m_air_min))

\* combustion_chamber_stoich.reaction_balance(fluid)
reaction_balance_stoich(c, fluid) ==
    Bind(st_m_fuel(c), LAMBDA m_fuel :
        rb_stoich_sums(c, fluid, m_fuel, st_m_air(c), RMul(c.air_min, m_fuel)))

\* self.reaction_balance(fluid): the method of the component's class
reaction_balance(c, fluid) ==
    IF c.variant = "stoich" THEN reaction_balance_stoich(c, fluid)
    ELSE reaction_balance_generic(c, fluid)

\* ------------------------------------------------------------------------
\* Stored mass flows: float rounding of the in-place updates
\* ------------------------------------------------------------------------
\* quantum of a stored mass flow: 1e-4 kg/s
FloatUnit == Q(1, 10000)

\* n / d rounded to the nearest integer, ties to the even one (n >= 0, d > 0)
RoundHalfEven(n, d) ==
    LET fl == n \div d
        rem == n % d
    IN  IF 2 * rem < d THEN fl
        ELSE IF 2 * rem > d THEN fl + 1
        ELSE IF fl % 2 = 0 THEN fl ELSE fl + 1

RECURSIVE FloatExp(_, _, _)
\* least e >= 0 with n < 2^(MantBits + e) * d
FloatExp(n, d, e) ==
    IF n < Pow2(MantBits) * d THEN e ELSE FloatExp(n, 2 * d, e + 1)

\* the float a result r is stored as
Fl(r) ==
    LET u == RDiv(r, FloatUnit)
        n == Abs(u[1])
        e == FloatExp(n, u[2], 0)
        q == RoundHalfEven(n, u[2] * Pow2(e)) * Pow2(e)
    IN  RMul(R(IF u[1] < 0 THEN -q ELSE q), FloatUnit)

\* x += y and x -= y on a stored mass flow
FlAdd(x, y) == Fl(RAdd(x, y))
FlSub(x, y) == Fl(RSub(x, y))

\* ------------------------------------------------------------------------
\* Numerical derivative of the reaction balance
\* ------------------------------------------------------------------------
\* (self.inl + self.outl)[pos], with pos counted from 1
NumStreams(c) == Len(c.inl) + Len(c.outl)
GetStream(c, pos) ==
    IF pos <= Len(c.inl) THEN c.inl[pos] ELSE c.outl[pos - Len(c.inl)]
SetStream(c, pos, s) ==
    IF pos <= Len(c.inl) THEN [c EXCEPT !.inl[pos] = s]
    ELSE [c EXCEPT !.outl[pos - Len(c.inl)] = s]
SetM(c, pos, v) == SetStream(c, pos, [GetStream(c, pos) EXCEPT !.m = v])
SetX(c, pos, f, v) == SetStream(c, pos, [GetStream(c, pos) EXCEPT !.fluid[f] = v])

\* the step sizes dm and df of rb_numeric_deriv
rb_dm_step == Q(1, 10000)
rb_df_step == Q(1, 100000)

\* the mass fraction at the first evaluation point
rb_upper(val) ==
    IF RLe(RAdd(val, rb_df_step), One) THEN RAdd(val, rb_df_step) ELSE One
\* a variant that steps down by df only
rb_lower_one_step(up) ==
    IF RGe(RSub(up, rb_df_step), Zero) THEN RSub(up, rb_df_step) ELSE Zero

\* the mass fraction at the second evaluation point, from the value up that
\* the first evaluation left in the stream
rb_lower(up) ==
    IF RGe(RSub(up, RMul(R(2), rb_df_step)), Zero)
    THEN RSub(up, RMul(R(2), rb_df_step)) ELSE Zero

\* The two branches of rb_numeric_deriv share their shape: a first
\* evaluation, an in-place update, a second evaluation, and the restoring
\* update.  q names the perturbed quantity: a key of fluid.val in the branch
\* dx = 'fluid', "m" for the mass flow in the other one.
\* the perturbed quantity as the stream at pos holds it
rb_probe(c, pos, q) ==
    IF q = "m" THEN GetStream(c, pos).m ELSE GetStream(c, pos).fluid[q]
\* the update between the two evaluations: m -= 2 * dm, or the clamped
\* fluid.val[f] -= 2 * df
rb_step2(c, pos, q) ==
    IF q = "m"
    THEN SetM(c, pos, FlSub(GetStream(c, pos).m, RMul(R(2), rb_dm_step)))
    ELSE SetX(c, pos, q, rb_lower(GetStream(c, pos).fluid[q]))
\* the update after them: m += dm, or fluid.val[f] = val
rb_restore(c, pos, q, val) ==
    IF q = "m" THEN SetM(c, pos, FlAdd(GetStream(c, pos).m, rb_dm_step))
    ELSE SetX(c, pos, q, val)

\* what the second evaluation r2 at c2 makes of the first one r1 at c1
rb_second(c1, c2, r1, r2, pos, q, val, d) ==
    IF r2.err # ""
    THEN [err |-> r2.err, c |-> r2.c, deriv |-> Zero,
          evals |-> <<rb_probe(c1, pos, q), rb_probe(c2, pos, q)>>]
    ELSE [err |-> "", c |-> rb_restore(r2.c, pos, q, val),
          evals |-> <<rb_probe(c1, pos, q), rb_probe(c2, pos, q)>>,
          deriv |-> RDiv(RSub(r1.res, r2.res), RMul(R(2), d))]

rb_second_at(c1, c2, r1, fluid, pos, q, val, d) ==
    rb_second(c1, c2, r1, reaction_balance(c2, fluid), pos, q, val, d)

\* what follows the first evaluation r1 at c1
rb_first(c1, r1, fluid, pos, q, val, d) ==
    IF r1.err # ""
    THEN [err |-> r1.err, c |-> r1.c, deriv |-> Zero,
          evals |-> <<rb_probe(c1, pos, q)>>]
    ELSE rb_second_at(c1, rb_step2(r1.c, pos, q), r1, fluid, pos, q, val, d)

\* the two evaluations exp += reaction_balance(fluid) and
\* exp -= reaction_balance(fluid); c1 is the component at the first
\* evaluation point, val the saved value, d the step.  A call that raises
\* leaves the component as it is at that moment.
rb_central(c1, fluid, pos, q, val, d) ==
    rb_first(c1, reaction_balance(c1, fluid), fluid, pos, q, val, d)

\* one pass of the loop `for f in self.inl[0].fluid.val.keys()` for the key
\* f, val being the fraction saved at its head
rb_fluid_pass(c, pos, fluid, f, val) ==
    rb_central(SetX(c, pos, f, rb_upper(val)), fluid, pos, f, val, rb_df_step)

rb_fluid_step(c, pos, fluid, f) ==
    rb_fluid_pass(c, pos, fluid, f, GetStream(c, pos).fluid[f])

RECURSIVE rb_fluid_loop(_, _, _, _, _, _)
\* what the loop does with the outcome r of the pass for key k
rb_fluid_next(pos, fluid, k, deriv, evals, r) ==
    IF r.err # ""
    THEN [err |-> r.err, c |-> r.c, deriv |-> deriv,
          evals |-> Append(evals, r.evals)]
    ELSE rb_fluid_loop(r.c, pos, fluid, k + 1,
                       Append(deriv, r.deriv), Append(evals, r.evals))

\* the loop over the keys k..Len(c.fluids), with the derivatives and the
\* evaluation points collected so far
rb_fluid_loop(c, pos, fluid, k, deriv, evals) ==
    IF k > Len(c.fluids)
    THEN [err |-> "", c |-> c, deriv |-> deriv, evals |-> evals]
    ELSE rb_fluid_next(pos, fluid, k, deriv, evals,
                       rb_fluid_step(c, pos, fluid, c.fluids[k]))

\* the branch dx = 'm' of rb_numeric_deriv: m += dm, m -= 2 * dm, m += dm
rb_mass_step(c, pos, fluid) ==
    rb_central(SetM(c, pos, FlAdd(GetStream(c, pos).m, rb_dm_step)), fluid,
               pos, "m", GetStream(c, pos).m, rb_dm_step)

\* its outcome in the shape of the other branch
rb_mass_wrap(r) ==
    [err |-> r.err, c |-> r.c, evals |-> <<r.evals>>,
     deriv |-> IF r.err = "" THEN <<r.deriv>> ELSE <<>>]

rb_mass_deriv(c, pos, fluid) == rb_mass_wrap(rb_mass_step(c, pos, fluid))

\* combustion_chamber.rb_numeric_deriv(dx, pos, fluid)
rb_numeric_deriv(c, dx, pos, fluid) ==
    IF dx = "fluid" THEN rb_fluid_loop(c, pos, fluid, 1, <<>>, <<>>)
    ELSE rb_mass_deriv(c, pos, fluid)

\* ------------------------------------------------------------------------
\* Property oracle (CoolProp and tespy.tools.fluid_properties), at the
\* interface the component consumes
\* ------------------------------------------------------------------------
\* reference states
T_ref_generic == Q(29315, 100)
T_ref_stoich == Q(37315, 100)
p_ref == R(100000)

\* enthalpy of a pure fluid at p_ref and T, J/kg, standing in for the
\* oracle's tables
OracleH(f, T) ==
    IF T = T_ref_generic
    THEN CASE f = "H2O" -> 84000
           [] f = "H2"  -> 4200000
           [] f = "CH4" -> 650000
           [] f = "CO2" -> 250000
           [] f = "O2"  -> 270000
           [] OTHER     -> 300000
    ELSE CASE f = "TESPy::myFuel"    -> 830000
           [] f = "TESPy::myFuel_fg" -> 400000
           [] OTHER                  -> 375000

\* h_mix_pT([0, p_ref, 0, fluid], T): enthalpy of a mixture at the
\* reference state; keys is the ordered key list of fluid
h_mix_pT(keys, fluid, T) ==
    RSumSeq([k \in 1..Len(keys) |-> RMul(fluid[keys[k]], R(OracleH(keys[k], T)))])

\* molar_mass_flow(fluid): sum of x / M
molar_mass_flow(keys, fluid) ==
    RSumSeq([k \in 1..Len(keys) |-> RDiv(fluid[keys[k]], molar_masses[keys[k]])])

\* the saturation line of water is defined from the triple point pressure
\* (611.66 Pa, here 612 Pa) upwards; 20 degC is its saturation temperature
\* at 2339 Pa
PTriple == R(612)
PSat20 == R(2339)
\* CP.PropsSI('H', 'P', p, 'Q', 1, water) raises ValueError below the
\* triple point pressure
SatLookupFails(p) == RLt(p, PTriple)
\* saturated vapour enthalpy where the lookup succeeds
h_steam_sat(p) == R(2500000)
\* h_pT(p, 293.15, water): liquid above the saturation pressure of 20 degC,
\* superheated vapour below
h_pT_water(p) == IF RGt(p, PSat20) THEN R(84000) ELSE R(2538000)

\* fallback pressure of the saturation lookup
p_fallback == R(615)

\* ------------------------------------------------------------------------
\* Thermal input, lambda and energy balance
\* ------------------------------------------------------------------------
\* self.fuels[f]['LHV'], set by comp_init
LHV(c, f) == c.fuels[f]

calc_ti_all_streams(c) ==
    RSumSeq([j \in 1..Len(c.fuel_list) |->
        RMul(InOutBalance(c.inl, c.outl, c.fuel_list[j]),
             LHV(c, c.fuel_list[j]))])

\* calc_ti of the generic chamber (all of self.inl, self.outl) and of the
\* engine (self.inl[2:], self.outl[2:])
calc_ti_generic(c) ==
    LET inl_ == CombInl(c)
        outl_ == CombOutl(c)
    IN  RSumSeq([j \in 1..Len(c.fuel_list) |->
            RMul(InOutBalance(inl_, outl_, c.fuel_list[j]),
                 LHV(c, c.fuel_list[j]))])

\* combustion_chamber_stoich.calc_ti
calc_ti_stoich(c) == RMul(InOutBalance(c.inl, c.outl, FuelName(c)), c.lhv)

calc_ti(c) ==
    IF c.variant = "stoich" THEN calc_ti_stoich(c) ELSE calc_ti_generic(c)

\* ti_func
ti_func(c) == RSub(c.ti.val, calc_ti(c))

\* n_fuel as the inner loop of lambda_func and calc_parameters has
\* accumulated it when it reaches inlet k
lf_n_fuel_upto(inl_, f, k) ==
    RSumSeq([j \in 1..k |-> MolarFlow(inl_[j], f)])

\* n_h and n_c of lambda_func and calc_parameters: the running n_fuel is
\* added once per inlet
lf_n_h(c, inl_) ==
    RSumSeq([j \in 1..Len(c.fuel_list) |->
        RSumSeq([k \in 1..Len(inl_) |->
            RMul(lf_n_fuel_upto(inl_, c.fuel_list[j], k),
                 R(fluid_structure[c.fuel_list[j]].H))])])
lf_n_c(c, inl_) ==
    RSumSeq([j \in 1..Len(c.fuel_list) |->
        RSumSeq([k \in 1..Len(inl_) |->
            RMul(lf_n_fuel_upto(inl_, c.fuel_list[j], k),
                 R(fluid_structure[c.fuel_list[j]].C))])])

lf_n_oxygen(inl_) ==
    RSumSeq([k \in 1..Len(inl_) |-> MolarFlow(inl_[k], "O2")])
lf_n_oxygen_stoich(c, inl_) == RAdd(RDiv(lf_n_h(c, inl_), R(4)), lf_n_c(c, inl_))

\* combustion_chamber.lambda_func (generic chamber and engine)
lambda_func_generic(c) ==
    LET inl_ == CombInl(c)
    IN  IF IsZero(lf_n_oxygen_stoich(c, inl_))
        THEN [err |-> "ZeroDivisionError", res |-> Zero]
        ELSE [err |-> "",
              res |-> RSub(RDiv(lf_n_oxygen(inl_), lf_n_oxygen_stoich(c, inl_)),
                           c.lamb.val)]

\* combustion_chamber_stoich.lambda_func
lambda_func_stoich(c) ==
    LET d == RMul(st_m_fuel(c), c.air_min)
    IN  IF IsZero(d) THEN [err |-> "ZeroDivisionError", res |-> Zero]
        ELSE [err |-> "", res |-> RSub(c.lamb.val, RDiv(st_m_air(c), d))]

lambda_func(c) ==
    IF c.variant = "stoich" THEN lambda_func_stoich(c) ELSE lambda_func_generic(c)

\* the condensation term dh of one outlet, with the saturation lookup
\* guarded by try / except ValueError (generic chamber) or not (engine)
eb_dh(c, o, guarded) ==
    LET n_h2o == RDiv(o.fluid["H2O"], molar_masses["H2O"])
        p == RDiv(RMul(p_ref, n_h2o), molar_mass_flow(c.fluids, o.fluid))
        h == h_pT_water(p)
        fails == SatLookupFails(p)
        h_steam == IF fails THEN h_steam_sat(p_fallback) ELSE h_steam_sat(p)
    IN  IF ~RGt(n_h2o, Zero) THEN [err |-> "", dh |-> Zero]
        ELSE IF fails /\ ~guarded THEN [err |-> "ValueError", dh |-> Zero]
        ELSE [err |-> "",
              dh |-> IF RLt(h, h_steam)
                     THEN RMul(RSub(h_steam, h), o.fluid["H2O"]) ELSE Zero]

\* sum over streams of m * (h - h_ref - dh[k])
eb_sum(c, strs, T, dh) ==
    RSumSeq([k \in 1..Len(strs) |->
        RMul(strs[k].m,
             RSub(RSub(strs[k].h, h_mix_pT(c.fluids, strs[k].fluid, T)), dh[k]))])

NoDh(strs) == [k \in 1..Len(strs) |-> Zero]

\* combustion_chamber.energy_balance
energy_balance_chamber(c) ==
    LET d == [k \in 1..Len(c.outl) |-> eb_dh(c, c.outl[k], TRUE)]
    IN  [err |-> "",
         res |-> RAdd(RSub(eb_sum(c, c.inl, T_ref_generic, NoDh(c.inl)),
                           eb_sum(c, c.outl, T_ref_generic,
                                  [k \in 1..Len(c.outl) |-> d[k].dh])),
                      calc_ti(c))]

\* combustion_chamber_stoich.energy_balance
energy_balance_stoich(c) ==
    [err |-> "",
     res |-> RAdd(RSub(eb_sum(c, c.inl, T_ref_stoich, NoDh(c.inl)),
                       eb_sum(c, c.outl, T_ref_stoich, NoDh(c.outl))),
                  calc_ti(c))]

\* combustion_engine.energy_balance
energy_balance_engine(c) ==
    LET inl_ == SubSeq(c.inl, 3, Len(c.inl))
        outl_ == SubSeq(c.outl, 3, Len(c.outl))
        d == [k \in 1..Len(outl_) |-> eb_dh(c, outl_[k], FALSE)]
        cooling == RSumSeq([i \in 1..2 |->
                       RMul(c.inl[i].m, RSub(c.outl[i].h, c.inl[i].h))])
    IN  IF \E k \in 1..Len(outl_) : d[k].err # ""
        THEN [err |-> "ValueError", res |-> Zero]
        ELSE [err |-> "",
              res |-> RSub(RSub(RAdd(RSub(eb_sum(c, inl_, T_ref_generic, NoDh(inl_)),
                                          eb_sum(c, outl_, T_ref_generic,
                                                 [k \in 1..Len(outl_) |-> d[k].dh])),
                                     calc_ti(c)),
                                cooling),
                           RAdd(c.P.val, c.Qloss.val))]

energy_balance(c) ==
    CASE c.variant = "stoich" -> energy_balance_stoich(c)
      [] c.variant = "engine" -> energy_balance_engine(c)
      [] OTHER -> energy_balance_chamber(c)

\* ------------------------------------------------------------------------
\* equations(): the residual vector
\* ------------------------------------------------------------------------
\* The log of a call lists, in program order, the accesses to lamb.val:
\* [ev |-> "write" | "read", by |-> function, val |-> value written or read]
LogOfRb(r) ==
    (IF r.wrote THEN <<[ev |-> "write", by |-> "reaction_balance", val |-> r.c.lamb.val]>>
     ELSE <<>>)
    \o (IF r.err = "" \/ r.wrote \/ r.c.lamb.is_set
        THEN <<[ev |-> "read", by |-> "reaction_balance", val |-> r.c.lamb.val]>>
        ELSE <<>>)

RECURSIVE eq_fluid_loop(_, _, _, _)
\* what the loop does with the outcome r of reaction_balance for key k
eq_fluid_next(k, vec, log, r) ==
    IF r.err # ""
    THEN [err |-> r.err, c |-> r.c, vec |-> vec, log |-> log \o LogOfRb(r)]
    ELSE eq_fluid_loop(r.c, k + 1, Append(vec, r.res), log \o LogOfRb(r))

\* for fluid in self.inl[0].fluid.val.keys(): vec_res += [reaction_balance]
eq_fluid_loop(c, k, vec, log) ==
    IF k > Len(c.fluids) THEN [err |-> "", c |-> c, vec |-> vec, log |-> log]
    ELSE eq_fluid_next(k, vec, log, reaction_balance(c, c.fluids[k]))

\* component.mass_flow_func of the chambers: one balance over all streams
mass_flow_func_chamber(c) ==
    <<RSub(RSumSeq([k \in 1..Len(c.inl) |-> c.inl[k].m]),
           RSumSeq([k \in 1..Len(c.outl) |-> c.outl[k].m]))>>

\* combustion_engine.mass_flow_func
mass_flow_func_engine(c) ==
    <<RSub(c.inl[1].m, c.outl[1].m), RSub(c.inl[2].m, c.outl[2].m),
      RSub(RAdd(c.inl[3].m, c.inl[4].m), c.outl[3].m)>>

\* combustion_engine.fluid_func
fluid_func(c) ==
    [n \in 1..(2 * Len(c.fluids)) |->
        LET i == ((n - 1) \div Len(c.fluids)) + 1
            f == c.fluids[((n - 1) % Len(c.fluids)) + 1]
        IN  RSub(c.inl[i].fluid[f], c.outl[i].fluid[f])]

\* pressure equations
pressure_func(c) ==
    IF c.variant = "engine"
    THEN <<RSub(c.inl[3].p, c.outl[3].p), RSub(c.inl[3].p, c.inl[4].p)>>
    ELSE [k \in 1..Len(c.inl) |-> RSub(c.outl[1].p, c.inl[k].p)]

\* characteristic line evaluated at expr = 1 (no design value recorded)
char_tiP == Q(5, 2)
char_Q1 == Q(1, 2)
char_Q2 == Q(1, 4)
char_Qloss == Q(1, 10)

\* tiP_char_func, Q1_char_func, Q2_char_func, Qloss_char_func
tiP_char_func(c) == RSub(calc_ti(c), RMul(char_tiP, c.P.val))
Q1_char_func(c) ==
    RSub(RMul(calc_ti(c), char_Q1),
         RMul(char_tiP, RMul(c.inl[1].m, RSub(c.outl[1].h, c.inl[1].h))))
Q2_char_func(c) ==
    RSub(RMul(calc_ti(c), char_Q2),
         RMul(char_tiP, RMul(c.inl[2].m, RSub(c.outl[2].h, c.inl[2].h))))
Qloss_char_func(c) ==
    RSub(RMul(calc_ti(c), char_Qloss), RMul(char_tiP, c.Qloss.val))

\* the equations after the reaction balance, up to the energy balance
eq_mandatory_tail(c) ==
    (IF c.variant = "engine" THEN fluid_func(c) \o mass_flow_func_engine(c)
     ELSE mass_flow_func_chamber(c))
    \o pressure_func(c)

\* the labels of the equations after the reaction balance, up to the
\* energy balance, in the order of eq_mandatory_tail
eq_mandatory_names(c) ==
    (IF c.variant = "engine"
     THEN [n \in 1..(2 * Len(c.fluids)) |-> "fluid"]
          \o <<"mass_flow", "mass_flow", "mass_flow">>
     ELSE <<"mass_flow">>)
    \o [k \in 1..Len(pressure_func(c)) |-> "pressure"]

\* specific volume of the cooling water and pi ** 2, as zeta_func and
\* calc_parameters use them
v_mix_ph(s) == Q(1, 1000)
PiSquared == Q(98696, 10000)

\* (i[1] - o[1]) * pi ** 2 / (8 * i[0] ** 2 * (v_i + v_o) / 2)
zeta_of(i, o) ==
    RDiv(RMul(RSub(i.p, o.p), PiSquared),
         RDiv(RMul(RMul(R(8), RMul(i.m, i.m)),
                   RAdd(v_mix_ph(i), v_mix_ph(o))), R(2)))

\* combustion_engine.Q1_func and Q2_func
Q1_func(c) ==
    RSub(c.Q1.val, RMul(c.inl[1].m, RSub(c.outl[1].h, c.inl[1].h)))
Q2_func(c) ==
    RSub(c.Q2.val, RMul(c.inl[2].m, RSub(c.outl[2].h, c.inl[2].h)))

\* the pressure ratio equations of the two cooling loops
pr1_func(c) == RSub(RMul(c.pr1.val, c.inl[1].p), c.outl[1].p)
pr2_func(c) == RSub(RMul(c.pr2.val, c.inl[2].p), c.outl[2].p)

\* component.zeta_func and zeta2_func
zeta_func(c) == RSub(c.zeta1.val, zeta_of(c.inl[1], c.outl[1]))
zeta2_func(c) == RSub(c.zeta2.val, zeta_of(c.inl[2], c.outl[2]))

\* one optional equation: if self.<name>.is_set: vec_res += [val]
eq_row_always(is_set, name, val) == <<[name |-> name, val |-> val]>>

eq_row(is_set, name, val) ==
    IF is_set THEN <<[name |-> name, val |-> val]>> ELSE <<>>

\* the optional equations of the engine's cooling loops
eq_loop_rows(c) ==
    IF c.variant = "engine"
    THEN eq_row(c.Q1.is_set, "Q1", Q1_func(c))
         \o eq_row(c.Q2.is_set, "Q2", Q2_func(c))
         \o eq_row(c.pr1.is_set, "pr1", pr1_func(c))
         \o eq_row(c.pr2.is_set, "pr2", pr2_func(c))
         \o eq_row(c.zeta1.is_set, "zeta1", zeta_func(c))
         \o eq_row(c.zeta2.is_set, "zeta2", zeta2_func(c))
    ELSE <<>>

\* the optional equations in program order, lf being the outcome of
\* lambda_func
eq_optional_rows(c, lf) ==
    eq_row(c.lamb.is_set, "lamb", lf.res)
    \o eq_row(c.ti.is_set, "ti", ti_func(c))
    \o eq_loop_rows(c)

eq_optional_from(c, lf, rows) ==
    [err |-> IF c.lamb.is_set THEN lf.err ELSE "",
     vec |-> [k \in 1..Len(rows) |-> rows[k].val],
     names |-> [k \in 1..Len(rows) |-> rows[k].name],
     log |-> IF c.lamb.is_set /\ lf.err = ""
             THEN <<[ev |-> "read", by |-> "lambda_func", val |-> c.lamb.val]>>
             ELSE <<>>]

eq_optional_of(c, lf) ==
    IF c.lamb.is_set /\ lf.err # ""
    THEN [err |-> lf.err, vec |-> <<>>, names |-> <<>>, log |-> <<>>]
    ELSE eq_optional_from(c, lf, eq_optional_rows(c, lf))

eq_optional(c) == eq_optional_of(c, lambda_func(c))

\* the engine's characteristic equations
eq_chars(c) ==
    IF c.variant = "engine"
    THEN <<tiP_char_func(c), Q1_char_func(c), Q2_char_func(c),
           Qloss_char_func(c)>>
    ELSE <<>>

eq_chars_names(c) ==
    IF c.variant = "engine"
    THEN <<"tiP_char", "Q1_char", "Q2_char", "Qloss_char">>
    ELSE <<>>

\* equations() after the reaction balances rb: eb is the outcome of the
\* energy balance, opt that of the optional equations
eq_finish(rb, eb, opt) ==
    IF eb.err # ""
    THEN [err |-> eb.err, c |-> rb.c, vec |-> <<>>, names |-> <<>>,
          log |-> rb.log]
    ELSE IF opt.err # ""
    THEN [err |-> opt.err, c |-> rb.c, vec |-> <<>>, names |-> <<>>,
          log |-> rb.log]
    ELSE [err |-> "", c |-> rb.c, log |-> rb.log \o opt.log,
          vec |-> rb.vec \o eq_mandatory_tail(rb.c) \o <<eb.res>>
                  \o eq_chars(rb.c) \o opt.vec,
          names |-> [k \in 1..Len(rb.vec) |-> "reaction_balance"]
                    \o eq_mandatory_names(rb.c) \o <<"energy_balance">>
                    \o eq_chars_names(rb.c) \o opt.names]

eq_after_rb(rb) ==
    IF rb.err # ""
    THEN [err |-> rb.err, c |-> rb.c, vec |-> <<>>, names |-> <<>>,
          log |-> rb.log]
    ELSE eq_finish(rb, energy_balance(rb.c), eq_optional(rb.c))

\* equations() of the three classes
equations(c) == eq_after_rb(eq_fluid_loop(c, 1, <<>>, <<>>))

\* ------------------------------------------------------------------------
\* comp_init: setup of the component
\* ------------------------------------------------------------------------
SeqToSet(seq) == {seq[k] : k \in 1..Len(seq)}

\* combustion_chamber.comp_init (also run by combustion_engine.comp_init):
\* the fuel list, the lookups of o2, co2, h2o and n2, and the LHV per fuel
comp_init_generic(fl) ==
    LET fuel_list_ == SelectIn(SupportedFuels, SeqToSet(fl))
    IN  IF Len(fuel_list_) = 0
        THEN [err |-> "TESPyComponentError", fuel_list |-> <<>>, fuels |-> <<>>]
        ELSE IF ~({"O2", "CO2", "H2O", "N2"} \subseteq SeqToSet(fl))
        THEN [err |-> "IndexError", fuel_list |-> fuel_list_, fuels |-> <<>>]
        ELSE [err |-> "", fuel_list |-> fuel_list_,
              fuels |-> [f \in SeqToSet(fuel_list_) |-> calc_lhv(f)]]

\* the keys of a dict in the order of Species
KeysOf(d) == SelectIn(Species, DOMAIN d)

\* combustion_chamber_stoich.calc_lhv: only the supported fuels of the
\* mixture contribute
calc_lhv_stoich(fuel_val) ==
    LET ks == KeysOf(fuel_val)
    IN  RSumSeq([k \in 1..Len(ks) |->
            IF ks[k] \in SupportedFuelSet
            THEN RMul(calc_lhv(ks[k]), fuel_val[ks[k]]) ELSE Zero])

\* stoich_flue_gas: air_min = m_air / m_fuel for one mole of fuel mixture
stoich_air_min(fuel_val, air_val) ==
    LET ks == KeysOf(fuel_val)
        m_fuel == RDiv(One, molar_mass_flow(ks, fuel_val))
        n_fluid(f) == RDiv(RMul(fuel_val[f], m_fuel), molar_masses[f])
        m_co2 == RSumSeq([k \in 1..Len(ks) |->
                    IF ks[k] \in SupportedFuelSet
                    THEN RMul(RMul(n_fluid(ks[k]), R(fluid_structure[ks[k]].C)),
                              molar_masses["CO2"])
                    ELSE Zero])
        m_h2o == RSumSeq([k \in 1..Len(ks) |->
                    IF ks[k] \in SupportedFuelSet
                    THEN RMul(RMul(n_fluid(ks[k]), Q(fluid_structure[ks[k]].H, 2)),
                              molar_masses["H2O"])
                    ELSE Zero])
        n_o2 == RAdd(RDiv(m_co2, molar_masses["CO2"]),
                     RMul(Q(1, 2), RDiv(m_h2o, molar_masses["H2O"])))
        m_air == RDiv(RMul(n_o2, molar_masses["O2"]), air_val["O2"])
    IN  RDiv(m_air, m_fuel)

\* combustion_chamber_stoich.comp_init; fuel, air, fuel_alias and air_alias
\* are the attributes [is_set, is_dict, val] / [is_set, val]
comp_init_stoich(fuel_, fuel_alias_, air_, air_alias_) ==
    LET fail(e) == [err |-> e, lhv |-> Zero, air_min |-> Zero]
    IN  IF ~fuel_.is_set \/ ~fuel_.is_dict THEN fail("TESPyComponentError")
        ELSE IF ~fuel_alias_.is_set THEN fail("TESPyComponentError")
        ELSE IF fuel_alias_.val = "TESPy::myFuel" THEN fail("TESPyComponentError")
        ELSE IF ~air_.is_set \/ ~air_.is_dict THEN fail("TESPyComponentError")
        ELSE IF ~air_alias_.is_set THEN fail("TESPyComponentError")
        ELSE IF air_alias_.val = "TESPy::myAir" THEN fail("TESPyComponentError")
        ELSE IF "O2" \notin (DOMAIN air_.val \cup DOMAIN fuel_.val)
        THEN fail("TESPyComponentError")
        ELSE IF "O2" \notin DOMAIN air_.val THEN fail("KeyError")
        ELSE IF IsZero(air_.val["O2"]) THEN fail("ZeroDivisionError")
        ELSE [err |-> "", lhv |-> calc_lhv_stoich(fuel_.val),
              air_min |-> stoich_air_min(fuel_.val, air_.val)]

\* ------------------------------------------------------------------------
\* convergence_check
\* ------------------------------------------------------------------------
\* first loop: negative unset inlet flows are reset, the flows are summed
cc_inlet_unguarded(i) ==
    IF ~i.init_csv /\ RLt(i.m, Zero) THEN [i EXCEPT !.m = Q(1, 100)]
    ELSE i

cc_inlet(i) ==
    IF ~i.init_csv /\ RLt(i.m, Zero) /\ ~i.m_set THEN [i EXCEPT !.m = Q(1, 100)]
    ELSE i
cc_m_total(inl_) ==
    RSumSeq([k \in 1..Len(inl_) |-> IF inl_[k].init_csv THEN Zero ELSE inl_[k].m])

\* the branch taken for one unset fluid f of an outlet o; m is the inlet
\* flow total and inl_ the inlets after the first loop
cc_fraction(c, inl_, m, o, f) ==
    LET x == o.fluid[f]
        m_f == RSumSeq([k \in 1..Len(inl_) |-> RMul(inl_[k].fluid[f], inl_[k].m)])
    IN  IF f \notin ({"O2", "CO2", "H2O"} \cup FuelSetOf(c))
        THEN IF IsZero(m) THEN [err |-> "ZeroDivisionError", x |-> x]
             ELSE [err |-> "",
                   x |-> IF RGt(RAbs(RSub(x, RDiv(m_f, m))), Q(3, 100))
                         THEN RDiv(m_f, m) ELSE x]
        ELSE IF f = "O2"
        THEN LET x1 == IF RGt(x, Q(25, 100)) THEN Q(2, 10) ELSE x
             IN  [err |-> "", x |-> IF RLt(x1, Q(1, 1000)) THEN Q(5, 100) ELSE x1]
        ELSE IF f = "CO2" \/ f = "H2O"
        THEN LET x1 == IF RGt(x, Q(1, 10)) THEN Q(75, 1000) ELSE x
             IN  [err |-> "", x |-> IF RLt(x1, Q(1, 1000)) THEN Q(2, 100) ELSE x1]
        ELSE [err |-> "", x |-> IF RGt(x, Zero) THEN Zero ELSE x]

RECURSIVE cc_outlet_fluids(_, _, _, _, _)
\* the loop over the unset fluids of one outlet, from key k on
cc_outlet_fluids(c, inl_, m, o, k) ==
    IF k > Len(c.fluids) THEN [err |-> "", o |-> o]
    ELSE IF o.fluid_set[c.fluids[k]] THEN cc_outlet_fluids(c, inl_, m, o, k + 1)
    ELSE LET r == cc_fraction(c, inl_, m, o, c.fluids[k])
         IN  IF r.err # "" THEN [err |-> r.err, o |-> o]
             ELSE cc_outlet_fluids(c, inl_, m,
                                   [o EXCEPT !.fluid[c.fluids[k]] = r.x], k + 1)

\* flue gas propagation: the outlet's flow and enthalpy
\* (nw.init_target(o, o.t) copies the composition to the connections
\* downstream of o, which are no streams of this component)
cc_outlet_flow(o) ==
    LET o1 == IF RLt(o.m, Zero) /\ ~o.m_set THEN [o EXCEPT !.m = R(10)] ELSE o
    IN  IF o.init_csv THEN o
        ELSE IF RLt(o1.h, R(750000)) /\ ~o1.h_set THEN [o1 EXCEPT !.h = R(1000000)]
        ELSE o1

\* sum of the fuel mass fractions of an inlet
cc_fuel(c, i) == RSumSeq([j \in 1..Len(c.fuel_list) |-> i.fluid[c.fuel_list[j]]])

RECURSIVE cc_search(_, _, _, _)
\* the loop `for i in inl` searching fuel and air inlet; st carries the
\* local variables fuel_found, fuel_inlet (index) and air_tmp as the loop
\* leaves them, with air_bound telling whether air_tmp was ever assigned
cc_search(c, inl_, k, st) ==
    IF k > Len(inl_) THEN st
    ELSE LET i == inl_[k]
             fuel == cc_fuel(c, i)
             s0 == [st EXCEPT !.fuel_found = FALSE]
             s1 == IF ~i.init_csv /\ RGt(fuel, Q(75, 100)) /\ ~i.m_set
                   THEN [s0 EXCEPT !.fuel_found = TRUE, !.fuel_inlet = k]
                   ELSE s0
             s2 == IF ~i.init_csv /\ RLt(fuel, Q(75, 100))
                   THEN [s1 EXCEPT !.air_bound = TRUE, !.air_tmp = i.m]
                   ELSE s1
         IN  cc_search(c, inl_, k + 1, s2)

\* combustion_chamber.convergence_check (generic chamber and engine): the
\* component as the call leaves it and the error it raises
convergence_check_generic(c) ==
    LET off == CombOff(c)
        inl1 == [k \in 1..Len(CombInl(c)) |-> cc_inlet(CombInl(c)[k])]
        m == cc_m_total(inl1)
        outl0 == CombOutl(c)
        \* this model has one combustion outlet
        fr == IF outl0[1].init_csv THEN [err |-> "", o |-> outl0[1]]
              ELSE cc_outlet_fluids(c, inl1, m, outl0[1], 1)
        o2 == cc_outlet_flow(fr.o)
        st == cc_search(c, inl1, 1,
                        [fuel_found |-> FALSE, fuel_inlet |-> 0,
                         air_bound |-> FALSE, air_tmp |-> Zero])
        rescale == RLt(c.lamb.val, R(2)) /\ ~c.lamb.is_set /\ st.fuel_found
        inl2 == IF rescale /\ st.air_bound
                THEN [inl1 EXCEPT ![st.fuel_inlet].m = RDiv(st.air_tmp, R(25))]
                ELSE inl1
        put(il, ol) == [c EXCEPT
                          !.inl = [k \in 1..Len(c.inl) |->
                                      IF k > off THEN il[k - off] ELSE c.inl[k]],
                          !.outl = [k \in 1..Len(c.outl) |->
                                      IF k > off THEN ol[k - off] ELSE c.outl[k]]]
    IN  IF fr.err # ""
        THEN [err |-> fr.err, c |-> put(inl1, <<fr.o>>)]
        ELSE IF rescale /\ ~st.air_bound
        THEN [err |-> "UnboundLocalError", c |-> put(inl1, <<o2>>)]
        ELSE [err |-> "", c |-> put(inl2, <<o2>>)]

\* the clamp `if x > hi: x = hi_val` followed by `if x < lo: x = lo_val`
Clamp2(x, hi, hi_val, lo, lo_val) ==
    LET x1 == IF RGt(x, hi) THEN hi_val ELSE x
    IN  IF RLt(x1, lo) THEN lo_val ELSE x1

\* the outlet loop of combustion_chamber_stoich.convergence_check
cc_stoich_outlet(c, o) ==
    LET air == AirName(c)
        fg == FlueGasName(c)
        fuel == FuelName(c)
        o1 == IF o.fluid_set[air] THEN o
              ELSE [o EXCEPT !.fluid[air] =
                       Clamp2(o.fluid[air], Q(95, 100), Q(95, 100), Q(5, 10), Q(5, 10))]
        o2 == IF o1.fluid_set[fg] THEN o1
              ELSE [o1 EXCEPT !.fluid[fg] =
                       Clamp2(o1.fluid[fg], Q(5, 10), Q(5, 10), Q(5, 100), Q(5, 100))]
        o3 == IF ~o2.fluid_set[fuel] /\ RGt(o2.fluid[fuel], Zero)
              THEN [o2 EXCEPT !.fluid[fuel] = Zero] ELSE o2
    IN  IF RLt(o3.m, Zero) /\ ~o3.m_set THEN [o3 EXCEPT !.m = R(10)] ELSE o3

\* combustion_chamber_stoich.convergence_check
convergence_check_stoich(c) ==
    [err |-> "",
     c |-> [c EXCEPT
              !.outl = [k \in 1..Len(c.outl) |-> cc_stoich_outlet(c, c.outl[k])],
              !.inl = [k \in 1..Len(c.inl) |->
                          IF RLt(c.inl[k].m, Zero) /\ ~c.inl[k].m_set
                          THEN [c.inl[k] EXCEPT !.m = Q(1, 100)] ELSE c.inl[k]],
              !.lamb.val = IF RLt(c.lamb.val, One) /\ ~c.lamb.is_set
                           THEN R(2) ELSE c.lamb.val]]

convergence_check(c) ==
    IF c.variant = "stoich" THEN convergence_check_stoich(c)
    ELSE convergence_check_generic(c)

\* ------------------------------------------------------------------------
\* initialise_fluids
\* ------------------------------------------------------------------------
\* mass fractions of nitrogen and oxygen in the air of the start values,
\* and their lambda
if_N_2 == Q(7655, 10000)
if_O_2 == Q(2345, 10000)
if_lamb == 3

\* fact_fuel[f] before and after the division by sum_fuel
if_fact_fuel(c, f) ==
    RSumSeq([k \in 1..Len(c.inl) |-> RDiv(c.inl[k].fluid[f], R(2))])
if_sum_fuel(c) ==
    RSumSeq([j \in 1..Len(c.fuel_list) |-> if_fact_fuel(c, c.fuel_list[j])])
if_share(c, f) == RDiv(if_fact_fuel(c, f), if_sum_fuel(c))

\* m_co2, m_h2o and m_fuel of one mole of fuel
if_m_co2(c) ==
    RSumSeq([j \in 1..Len(c.fuel_list) |->
        RMul(RMul(R(fluid_structure[c.fuel_list[j]].C), molar_masses["CO2"]),
             if_share(c, c.fuel_list[j]))])
if_m_h2o(c) ==
    RSumSeq([j \in 1..Len(c.fuel_list) |->
        RMul(RMul(Q(fluid_structure[c.fuel_list[j]].H, 2), molar_masses["H2O"]),
             if_share(c, c.fuel_list[j]))])
if_m_fuel(c) ==
    RSumSeq([j \in 1..Len(c.fuel_list) |->
        RMul(molar_masses[c.fuel_list[j]], if_share(c, c.fuel_list[j]))])

if_n_o2(c) ==
    RMul(RAdd(RDiv(if_m_co2(c), molar_masses["CO2"]),
              RMul(Q(1, 2), RDiv(if_m_h2o(c), molar_masses["H2O"]))),
         R(if_lamb))
if_m_air(c) == RDiv(RMul(if_n_o2(c), molar_masses["O2"]), if_O_2)
if_m_fg(c) == RAdd(if_m_air(c), if_m_fuel(c))

\* the dictionary fg of the flue gas
if_fg(c) ==
    [f \in {"N2", "CO2", "O2", "H2O"} |->
        CASE f = "N2" -> RDiv(RMul(if_N_2, if_m_air(c)), if_m_fg(c))
          [] f = "CO2" -> RDiv(if_m_co2(c), if_m_fg(c))
          [] f = "O2" -> RDiv(RMul(RMul(if_n_o2(c), molar_masses["O2"]),
                                   RSub(One, Q(1, if_lamb))), if_m_fg(c))
          [] OTHER -> RDiv(if_m_h2o(c), if_m_fg(c))]

\* an outlet takes the start values of the fluids the user did not fix
if_outlet(o, fg) ==
    [o EXCEPT !.fluid = [f \in DOMAIN o.fluid |->
                            IF ~o.fluid_set[f] /\ f \in DOMAIN fg THEN fg[f]
                            ELSE o.fluid[f]]]

\* combustion_chamber.initialise_fluids (every outlet) and
\* combustion_engine.initialise_fluids (self.outl[2])
initialise_fluids_generic(c) ==
    IF IsZero(if_sum_fuel(c)) THEN [err |-> "ZeroDivisionError", c |-> c]
    ELSE IF IsZero(if_m_fg(c)) THEN [err |-> "ZeroDivisionError", c |-> c]
    ELSE [err |-> "",
          c |-> [c EXCEPT !.outl = [k \in 1..Len(c.outl) |->
                    IF c.variant = "engine" /\ k # 3 THEN c.outl[k]
                    ELSE if_outlet(c.outl[k], if_fg(c))]]]

\* combustion_chamber_stoich.initialise_fluids
initialise_fluids_stoich(c) ==
    [err |-> "",
     c |-> [c EXCEPT !.outl = [k \in 1..Len(c.outl) |->
               if_outlet(c.outl[k],
                         (AirName(c) :> Q(8, 10)) @@ (FlueGasName(c) :> Q(2, 10)))]]]

initialise_fluids(c) ==
    IF c.variant = "stoich" THEN initialise_fluids_stoich(c)
    ELSE initialise_fluids_generic(c)

\* ------------------------------------------------------------------------
\* calc_parameters
\* ------------------------------------------------------------------------
\* combustion_chamber.calc_parameters: ti.val, then lamb.val
calc_parameters_generic(c) ==
    LET c1 == [c EXCEPT !.ti.val = calc_ti(c)]
    IN  IF IsZero(lf_n_oxygen_stoich(c, c.inl))
        THEN [err |-> "ZeroDivisionError", c |-> c1]
        ELSE [err |-> "",
              c |-> [c1 EXCEPT !.lamb.val =
                        RDiv(lf_n_oxygen(c.inl), lf_n_oxygen_stoich(c, c.inl))]]

\* combustion_chamber_stoich.calc_parameters: lamb.val, then ti.val (the
\* entropy S is not part of this model's state)
calc_parameters_stoich(c) ==
    IF IsZero(st_m_fuel(c)) \/ IsZero(c.air_min)
    THEN [err |-> "ZeroDivisionError", c |-> c]
    ELSE [err |-> "",
          c |-> [c EXCEPT
                   !.lamb.val = RDiv(RDiv(st_m_air(c), st_m_fuel(c)), c.air_min),
                   !.ti.val = RSumSeq([k \in 1..Len(c.inl) |->
                                 RMul(RMul(c.inl[k].m, c.inl[k].fluid[FuelName(c)]),
                                      c.lhv)])]]

\* combustion_engine.calc_parameters: pr, zeta and Q of the two cooling
\* loops, P and Qloss; zeta1 and zeta2 divide by the squared mass flow of
\* their cooling loop
calc_parameters_engine(c) ==
    IF IsZero(c.inl[1].m) \/ IsZero(c.inl[2].m)
    THEN [err |-> "ZeroDivisionError", c |-> c]
    ELSE [err |-> "",
          c |-> [c EXCEPT
                   !.pr1.val = RDiv(c.outl[1].p, c.inl[1].p),
                   !.pr2.val = RDiv(c.outl[2].p, c.inl[2].p),
                   !.zeta1.val = zeta_of(c.inl[1], c.outl[1]),
                   !.zeta2.val = zeta_of(c.inl[2], c.outl[2]),
                   !.Q1.val = RMul(c.inl[1].m, RSub(c.outl[1].h, c.inl[1].h)),
                   !.Q2.val = RMul(c.inl[2].m, RSub(c.outl[2].h, c.inl[2].h)),
                   !.P.val = RDiv(calc_ti(c), char_tiP),
                   !.Qloss.val = RDiv(RMul(calc_ti(c), char_Qloss), char_tiP)]]

calc_parameters(c) ==
    CASE c.variant = "stoich" -> calc_parameters_stoich(c)
      [] c.variant = "engine" -> calc_parameters_engine(c)
      [] OTHER -> calc_parameters_generic(c)

\* ------------------------------------------------------------------------
\* derivatives: the reaction-balance block of the Jacobian
\* ------------------------------------------------------------------------
\* the positions derivatives() differentiates the reaction balance at:
\* range(3) of the chambers, [2, 3, 6] of the engine (counted from 1 here)
rb_positions(c) == IF c.variant = "engine" THEN <<3, 4, 7>> ELSE <<1, 2, 3>>

\* The block of the reaction balance is filled by the calls
\*   deriv[j, i, 0] = rb_numeric_deriv('m', i, fluid)
\*   deriv[j, i, 3:] = rb_numeric_deriv('fluid', i, fluid)
\* for fluid in self.fluids, for i in the positions.  Call number n (from 0)
\* of that sequence has these arguments:
rb_call_fluid(c, n) == c.fluids[(n \div (2 * Len(rb_positions(c)))) + 1]
rb_call_pos(c, n) == rb_positions(c)[((n \div 2) % Len(rb_positions(c))) + 1]
rb_call_dx(n) == IF n % 2 = 0 THEN "m" ELSE "fluid"
rb_call_count(c) == 2 * Len(rb_positions(c)) * Len(c.fluids)

RECURSIVE rb_block_loop(_, _, _)
\* what the loops do with the outcome r of call n
rb_block_next(n, rows, r, fluid, pos, dx) ==
    IF r.err # "" THEN [err |-> r.err, c |-> r.c, rows |-> rows]
    ELSE rb_block_loop(r.c, n + 1,
             Append(rows, [fluid |-> fluid, pos |-> pos, dx |-> dx,
                           deriv |-> r.deriv]))

rb_block_call(c, n, rows, fluid, pos, dx) ==
    rb_block_next(n, rows, rb_numeric_deriv(c, dx, pos, fluid), fluid, pos, dx)

rb_block_loop(c, n, rows) ==
    IF n >= rb_call_count(c) THEN [err |-> "", c |-> c, rows |-> rows]
    ELSE rb_block_call(c, n, rows, rb_call_fluid(c, n), rb_call_pos(c, n),
                       rb_call_dx(n))

\* ---- the rows of mat_deriv ----
\* An entry deriv[row, pos, col] = val that derivatives() writes in closed
\* form: pos counts the streams of self.inl + self.outl from 1, col is "m",
\* "p", "h" (columns 0, 1, 2) or the fluid of a column from 3 on.
Entry(pos, col, val) == [pos |-> pos, col |-> col, val |-> val]

\* a row of mat_deriv: the group of equations it belongs to and its entries
\* written in closed form (the other entries are 0 or numeric derivatives)
JacRow(name, cf) == [name |-> name, cf |-> cf]

\* combustion_engine.fluid_deriv
fluid_deriv(c) ==
    [n \in 1..(2 * Len(c.fluids)) |->
        LET i == ((n - 1) \div Len(c.fluids)) + 1
            f == c.fluids[((n - 1) % Len(c.fluids)) + 1]
        IN  JacRow("fluid", {Entry(i, f, One), Entry(i + 4, f, RNeg(One))})]

\* combustion_engine.mass_flow_deriv
mass_flow_deriv_engine(c) ==
    <<JacRow("mass_flow", {Entry(1, "m", One), Entry(5, "m", RNeg(One))}),
      JacRow("mass_flow", {Entry(2, "m", One), Entry(6, "m", RNeg(One))}),
      JacRow("mass_flow", {Entry(3, "m", One), Entry(4, "m", One),
                           Entry(7, "m", RNeg(One))})>>

\* component.mass_flow_deriv of the two chambers: one row, 1 for every
\* inlet and -1 for every outlet
mass_flow_deriv_chamber(c) ==
    <<JacRow("mass_flow",
             {Entry(k, "m", One) : k \in 1..Len(c.inl)}
             \cup {Entry(Len(c.inl) + k, "m", RNeg(One)) : k \in 1..Len(c.outl)})>>

\* pressure_deriv of the chambers and of the engine
pressure_deriv(c) ==
    IF c.variant = "engine"
    THEN <<JacRow("pressure", {Entry(3, "p", One), Entry(7, "p", RNeg(One))}),
           JacRow("pressure", {Entry(3, "p", One), Entry(4, "p", RNeg(One))})>>
    ELSE [k \in 1..2 |->
             JacRow("pressure", {Entry(3, "p", One), Entry(k, "p", RNeg(One))})]

\* the row of the energy balance of the chambers: column 2 is written in
\* closed form, columns 0 and 1 by numeric_deriv
eb_deriv_chamber(c) ==
    JacRow("energy_balance",
           {Entry(k, "h", c.inl[k].m) : k \in 1..Len(c.inl)}
           \cup {Entry(Len(c.inl) + k, "h", RNeg(c.outl[k].m)) :
                    k \in 1..(3 - Len(c.inl))})

\* the row of the energy balance of the engine: the mass flows of the
\* cooling water, the enthalpies of all streams and the fractions of the
\* fuels are written in closed form
eb_deriv_engine(c) ==
    JacRow("energy_balance",
           {Entry(i, "m", RNeg(RSub(c.outl[i].h, c.inl[i].h))) : i \in 1..2}
           \cup {Entry(i, "h", c.inl[i].m) : i \in 1..4}
           \cup {Entry(i + 4, "h", RNeg(c.outl[i].m)) : i \in 1..3}
           \cup UNION {{Entry(3, c.fuel_list[j],
                              RMul(c.inl[3].m, LHV(c, c.fuel_list[j]))),
                        Entry(4, c.fuel_list[j],
                              RMul(c.inl[4].m, LHV(c, c.fuel_list[j]))),
                        Entry(7, c.fuel_list[j],
                              RNeg(RMul(c.outl[3].m, LHV(c, c.fuel_list[j]))))} :
                          j \in 1..Len(c.fuel_list)})

\* the row of a specified thermal input: generic chamber
ti_deriv_generic(c) ==
    JacRow("ti",
           {Entry(i, "m", RSumSeq([j \in 1..Len(c.fuel_list) |->
                              RNeg(RMul(c.inl[i].fluid[c.fuel_list[j]],
                                        LHV(c, c.fuel_list[j])))])) : i \in 1..2}
           \cup {Entry(3, "m", RSumSeq([j \in 1..Len(c.fuel_list) |->
                              RMul(c.outl[1].fluid[c.fuel_list[j]],
                                   LHV(c, c.fuel_list[j]))]))}
           \cup UNION {{Entry(1, c.fuel_list[j],
                              RNeg(RMul(c.inl[1].m, LHV(c, c.fuel_list[j])))),
                        Entry(2, c.fuel_list[j],
                              RNeg(RMul(c.inl[2].m, LHV(c, c.fuel_list[j])))),
                        Entry(3, c.fuel_list[j],
                              RMul(c.outl[1].m, LHV(c, c.fuel_list[j])))} :
                          j \in 1..Len(c.fuel_list)})

\* the row of a specified thermal input: stoichiometric chamber
ti_deriv_stoich(c) ==
    JacRow("ti",
           {Entry(i, "m", RMul(RNeg(c.inl[i].fluid[FuelName(c)]), c.lhv)) :
               i \in 1..2}
           \cup {Entry(i, FuelName(c), RMul(RNeg(c.inl[i].m), c.lhv)) : i \in 1..2}
           \cup {Entry(3, "m", RMul(c.outl[1].fluid[FuelName(c)], c.lhv)),
                 Entry(3, FuelName(c), RMul(c.outl[1].m, c.lhv))})

\* the rows of specified heat outputs and pressure ratios of loop i
Q_deriv(c, name, i) ==
    JacRow(name, {Entry(i, "m", RNeg(RSub(c.outl[i].h, c.inl[i].h))),
                  Entry(i, "h", c.inl[i].m),
                  Entry(i + 4, "h", RNeg(c.inl[i].m))})
pr_deriv(c, name, i) ==
    JacRow(name, {Entry(i, "p", c[name].val), Entry(i + 4, "p", RNeg(One))})

\* an optional group of rows: if self.<name>.is_set: mat_deriv += ...
jac_row_always(is_set, row) == <<row>>

jac_row(is_set, row) == IF is_set THEN <<row>> ELSE <<>>

\* the rows after the block of the reaction balance: chambers
jac_rows_chamber(c) ==
    mass_flow_deriv_chamber(c) \o pressure_deriv(c)
    \o <<eb_deriv_chamber(c)>>
    \o jac_row(c.lamb.is_set, JacRow("lamb", {}))
    \o jac_row(c.ti.is_set,
               IF c.variant = "stoich" THEN ti_deriv_stoich(c)
               ELSE ti_deriv_generic(c))

\* the rows after the block of the reaction balance: engine
jac_rows_engine(c) ==
    fluid_deriv(c) \o mass_flow_deriv_engine(c) \o pressure_deriv(c)
    \o <<eb_deriv_engine(c), JacRow("tiP_char", {}), JacRow("Q1_char", {}),
         JacRow("Q2_char", {}), JacRow("Qloss_char", {})>>
    \o jac_row(c.lamb.is_set, JacRow("lamb", {}))
    \o jac_row(c.ti.is_set, JacRow("ti", {}))
    \o jac_row(c.Q1.is_set, Q_deriv(c, "Q1", 1))
    \o jac_row(c.Q2.is_set, Q_deriv(c, "Q2", 2))
    \o jac_row(c.pr1.is_set, pr_deriv(c, "pr1", 1))
    \o jac_row(c.pr2.is_set, pr_deriv(c, "pr2", 2))
    \o jac_row(c.zeta1.is_set, JacRow("zeta1", {}))
    \o jac_row(c.zeta2.is_set, JacRow("zeta2", {}))

\* all rows of mat_deriv, the block of the reaction balance first
jac_rows(c) ==
    [k \in 1..Len(c.fluids) |-> JacRow("reaction_balance", {})]
    \o (IF c.variant = "engine" THEN jac_rows_engine(c) ELSE jac_rows_chamber(c))

\* self.derivatives(): the block of the reaction balance with the state its
\* calls of rb_numeric_deriv leave behind, then the other rows, written at
\* that state
derivatives_from(r, err) ==
    [err |-> err, c |-> r.c, rows |-> r.rows,
     jac |-> IF err = "" THEN jac_rows(r.c) ELSE <<>>]

\* numeric_deriv(self.energy_balance, ...) perturbs a mass flow or a
\* pressure, which the failure of the saturation lookup does not depend on
derivatives_of(c, r) ==
    derivatives_from(r, IF r.err # "" THEN r.err ELSE energy_balance(r.c).err)

derivatives(c) == derivatives_of(c, rb_block_loop(c, 0, <<>>))

\* ------------------------------------------------------------------------
\* State
\* ------------------------------------------------------------------------
VARIABLES
    variant,     \* "chamber", "stoich" or "engine": the component's class
    nw_fluids,   \* nw.fluids: the ordered keys of every fluid.val
    fuel,        \* stoichiometric chamber: attribute fuel
    fuel_alias,  \*                         attribute fuel_alias
    air,         \*                         attribute air
    air_alias,   \*                         attribute air_alias
    phase,       \* "new" before comp_init, then "ready" or "failed"
    fuel_list,   \* self.fuel_list
    fuels,       \* self.fuels[f]['LHV']
    lhv,         \* stoichiometric chamber: self.lhv
    air_min,     \* stoichiometric chamber: self.air_min
    inl,         \* self.inl: the inlet streams
    outl,        \* self.outl: the outlet streams
    lamb,        \* self.lamb = [val, is_set]
    ti,          \* self.ti = [val, is_set]
    P,           \* engine: self.P = [val]
    Qloss,       \* engine: self.Qloss = [val]
    Q1,          \* engine: self.Q1 = [val, is_set]
    Q2,          \* engine: self.Q2 = [val, is_set]
    pr1,         \* engine: self.pr1 = [val, is_set]
    pr2,         \* engine: self.pr2 = [val, is_set]
    zeta1,       \* engine: self.zeta1 = [val, is_set]
    zeta2,       \* engine: self.zeta2 = [val, is_set]
    ret          \* outcome of the last call: [op, args, err, val, log, evals]

cfgvars == <<variant, nw_fluids, fuel, fuel_alias, air, air_alias>>
initvars == <<phase, fuel_list, fuels, lhv, air_min>>
loopvars == <<Q1, Q2, pr1, pr2, zeta1, zeta2>>
vars == <<variant, nw_fluids, fuel, fuel_alias, air, air_alias, phase,
          fuel_list, fuels, lhv, air_min, inl, outl, lamb, ti, P, Qloss, Q1, Q2,
          pr1, pr2, zeta1, zeta2, ret>>

\* the component object as the operators above read it
Self ==
    [variant |-> variant, fluids |-> nw_fluids, fuel_list |-> fuel_list,
     fuels |-> fuels, lhv |-> lhv, air_min |-> air_min,
     fuel_alias |-> fuel_alias, air_alias |-> air_alias,
     inl |-> inl, outl |-> outl, lamb |-> lamb, ti |-> ti,
     P |-> P, Qloss |-> Qloss, Q1 |-> Q1, Q2 |-> Q2, pr1 |-> pr1, pr2 |-> pr2,
     zeta1 |-> zeta1, zeta2 |-> zeta2]

NoRet == [op |-> "", args |-> <<>>, err |-> "", val |-> <<>>, log |-> <<>>,
          evals |-> <<>>]

\* the part of the component a call can change
Store(c) ==
    /\ inl' = c.inl
    /\ outl' = c.outl
    /\ lamb' = c.lamb
    /\ ti' = c.ti
    /\ P' = c.P
    /\ Qloss' = c.Qloss
    /\ Q1' = c.Q1
    /\ Q2' = c.Q2
    /\ pr1' = c.pr1
    /\ pr2' = c.pr2
    /\ zeta1' = c.zeta1
    /\ zeta2' = c.zeta2

\* ------------------------------------------------------------------------
\* Actions: the calls of the solver on a set-up component
\* ------------------------------------------------------------------------
\* the component is set up and the last call has returned to the solver
Callable == phase = "ready" /\ ret.op = ""

\* a call returns or raises: the component is left as c, and the outcome is
\* handed to the caller
Outcome(op, args, c, err, val, log, evals) ==
    /\ Store(c)
    /\ ret' = [op |-> op, args |-> args, err |-> err, val |-> val,
               log |-> log, evals |-> evals]
    /\ UNCHANGED <<cfgvars, initvars>>

ReactionBalanceDone(fluid, r) ==
    Outcome("reaction_balance", <<fluid>>, r.c, r.err, <<r.res>>, LogOfRb(r), <<>>)

\* one call self.reaction_balance(fluid)
ReactionBalance(fluid) ==
    /\ Callable
    /\ ReactionBalanceDone(fluid, reaction_balance(Self, fluid))

EquationsDone(r) ==
    Outcome("equations", <<>>, r.c, r.err, [vec |-> r.vec, names |-> r.names],
            r.log, <<>>)

\* one call self.equations()
Equations ==
    /\ Callable
    /\ EquationsDone(equations(Self))

\* the positions rb_numeric_deriv is called at
RbPositions == SeqToSet(rb_positions(Self))

RbNumericDerivDone(dx, pos, fluid, r) ==
    Outcome("rb_numeric_deriv", <<dx, pos, fluid>>, r.c, r.err, r.deriv, <<>>,
            r.evals)

\* one call self.rb_numeric_deriv(dx, pos, fluid)
RbNumericDeriv(dx, pos, fluid) ==
    /\ Callable
    /\ pos \in RbPositions
    /\ RbNumericDerivDone(dx, pos, fluid, rb_numeric_deriv(Self, dx, pos, fluid))

DerivativesDone(r) ==
    Outcome("derivatives", <<>>, r.c, r.err,
            [rows |-> r.rows, jac |-> r.jac], <<>>, <<>>)

\* one call self.derivatives()
Derivatives ==
    /\ Callable
    /\ DerivativesDone(derivatives(Self))

LambdaFuncDone(c, r) ==
    Outcome("lambda_func", <<>>, c, r.err, <<r.res>>, <<>>, <<>>)

\* one call self.lambda_func(), made by equations() when lamb is set
LambdaFunc ==
    /\ Callable
    /\ lamb.is_set
    /\ LambdaFuncDone(Self, lambda_func(Self))

EnergyBalanceDone(c, r) ==
    Outcome("energy_balance", <<>>, c, r.err, <<r.res>>, <<>>, <<>>)

\* one call self.energy_balance(), made by equations()
EnergyBalance ==
    /\ Callable
    /\ EnergyBalanceDone(Self, energy_balance(Self))

ConvergenceCheckDone(r) ==
    Outcome("convergence_check", <<>>, r.c, r.err, <<>>, <<>>, <<>>)

\* one call self.convergence_check(nw)
ConvergenceCheck ==
    /\ Callable
    /\ ConvergenceCheckDone(convergence_check(Self))

InitialiseFluidsDone(r) ==
    Outcome("initialise_fluids", <<>>, r.c, r.err, <<>>, <<>>, <<>>)

\* one call self.initialise_fluids(nw)
InitialiseFluids ==
    /\ Callable
    /\ InitialiseFluidsDone(initialise_fluids(Self))

CalcParametersDone(r) ==
    Outcome("calc_parameters", <<>>, r.c, r.err, <<>>, <<>>, <<>>)

\* one call self.calc_ti()
CalcTi ==
    /\ Callable
    /\ Outcome("calc_ti", <<>>, Self, "", <<calc_ti(Self)>>, <<>>, <<>>)

\* one call self.ti_func(), made by equations() when ti is set
TiFunc ==
    /\ Callable
    /\ ti.is_set
    /\ Outcome("ti_func", <<>>, Self, "", <<ti_func(Self)>>, <<>>, <<>>)

\* one call self.calc_parameters()
CalcParameters ==
    /\ Callable
    /\ CalcParametersDone(calc_parameters(Self))

\* the user fixes lambda to the value the component reports:
\* comb.set_attr(lamb=comb.lamb.val)
SetAttrLamb ==
    /\ Callable
    /\ ~lamb.is_set
    /\ lamb' = [lamb EXCEPT !.is_set = TRUE]
    /\ ret' = [NoRet EXCEPT !.op = "set_attr"]
    /\ UNCHANGED <<cfgvars, initvars, inl, outl, ti, P, Qloss, loopvars>>

\* the values the user fixes the parameters of the cooling loops to
LoopFixed ==
    [Q1 |-> R(20000), Q2 |-> R(10000), pr1 |-> Q(99, 100), pr2 |-> Q(98, 100),
     zeta1 |-> R(1000), zeta2 |-> R(2000)]
LoopNames == {"Q1", "Q2", "pr1", "pr2", "zeta1", "zeta2"}

\* the user fixes a parameter of a cooling loop: chp.set_attr(Q1=1.5e6)
SetAttrLoop(name) ==
    /\ Callable
    /\ variant = "engine"
    /\ ~Self[name].is_set
    /\ Store([Self EXCEPT ![name] = [val |-> LoopFixed[name], is_set |-> TRUE]])
    /\ ret' = [NoRet EXCEPT !.op = "set_attr"]
    /\ UNCHANGED <<cfgvars, initvars>>

\* the solver takes the outcome of a call that returned; a call that raised
\* ends the run, as nothing in the component catches it
Return ==
    /\ ret.op # ""
    /\ ret.err = ""
    /\ ret' = NoRet
    /\ UNCHANGED <<cfgvars, initvars, inl, outl, lamb, ti, P, Qloss, loopvars>>

\* ------------------------------------------------------------------------
\* Actions: setup
\* ------------------------------------------------------------------------
\* combustion_chamber.comp_init(nw)
CompInitChamber ==
    /\ phase = "new"
    /\ variant = "chamber"
    /\ LET r == comp_init_generic(nw_fluids)
       IN  /\ phase' = IF r.err = "" THEN "ready" ELSE "failed"
           /\ fuel_list' = r.fuel_list
           /\ fuels' = r.fuels
           /\ ret' = [NoRet EXCEPT !.op = "comp_init", !.err = r.err]
    /\ UNCHANGED <<cfgvars, lhv, air_min, inl, outl, lamb, ti, P, Qloss, loopvars>>

\* combustion_engine.comp_init(nw): P and Qloss become variables of the
\* system when unset, then combustion_chamber.comp_init runs
CompInitEngine ==
    /\ phase = "new"
    /\ variant = "engine"
    /\ LET r == comp_init_generic(nw_fluids)
       IN  /\ phase' = IF r.err = "" THEN "ready" ELSE "failed"
           /\ fuel_list' = r.fuel_list
           /\ fuels' = r.fuels
           /\ ret' = [NoRet EXCEPT !.op = "comp_init", !.err = r.err]
    /\ UNCHANGED <<cfgvars, lhv, air_min, inl, outl, lamb, ti, P, Qloss, loopvars>>

\* combustion_chamber_stoich.comp_init(nw)
CompInitStoich ==
    /\ phase = "new"
    /\ variant = "stoich"
    /\ LET r == comp_init_stoich(fuel, fuel_alias, air, air_alias)
       IN  /\ phase' = IF r.err = "" THEN "ready" ELSE "failed"
           /\ lhv' = r.lhv
           /\ air_min' = r.air_min
           /\ ret' = [NoRet EXCEPT !.op = "comp_init", !.err = r.err]
    /\ UNCHANGED <<cfgvars, fuel_list, fuels, inl, outl, lamb, ti, P, Qloss, loopvars>>

\* ------------------------------------------------------------------------
\* Initial states
\* ------------------------------------------------------------------------
\* an attribute that was never set
Unset == [is_set |-> FALSE, is_dict |-> FALSE, val |-> <<>>]
UnsetAlias == [is_set |-> FALSE, val |-> ""]
Dict(d) == [is_set |-> TRUE, is_dict |-> TRUE, val |-> d]

\* a mass-fraction vector over the keys, zero where d has no entry
Mix(keys, d) ==
    [f \in SeqToSet(keys) |-> IF f \in DOMAIN d THEN d[f] ELSE Zero]

Stream(m, h, fluid) ==
    [m |-> m, p |-> R(100000), h |-> h, fluid |-> fluid, m_set |-> FALSE,
     h_set |-> FALSE, fluid_set |-> [f \in DOMAIN fluid |-> FALSE],
     init_csv |-> FALSE]

\* the fluids of the networks the solver calls are made on
GenericFluids == <<"CH4", "CO2", "H2", "H2O", "N2", "O2">>
StoichFluids == <<"Ar", "TESPy::myAir", "TESPy::myFuel", "TESPy::myFuel_fg">>

\* compositions of the generic chamber and the engine
XAir == Mix(GenericFluids, ("O2" :> Q(1, 4)) @@ ("N2" :> Q(3, 4)))
XMethane == Mix(GenericFluids, ("CH4" :> One))
XFuelMix == Mix(GenericFluids, ("CH4" :> Q(1, 2)) @@ ("H2" :> Q(1, 2)))
XFuelLean == Mix(GenericFluids, ("CH4" :> Q(3, 4)) @@ ("N2" :> Q(1, 4)))
XFlueGas == Mix(GenericFluids, ("N2" :> Q(73, 100)) @@ ("O2" :> Q(15, 100))
                               @@ ("CO2" :> Q(5, 100)) @@ ("H2O" :> Q(7, 100)))
XFlueDry == Mix(GenericFluids, ("N2" :> Q(748, 1000)) @@ ("O2" :> Q(2, 10))
                               @@ ("CO2" :> Q(5, 100)) @@ ("H2O" :> Q(2, 1000)))
XFlueOff == Mix(GenericFluids, ("N2" :> Q(1, 2)) @@ ("O2" :> Q(3, 10))
                               @@ ("CO2" :> Q(1, 10)) @@ ("CH4" :> Q(1, 10)))

\* compositions of the stoichiometric chamber
SAir == Mix(StoichFluids, ("TESPy::myAir" :> One))
SFuel == Mix(StoichFluids, ("TESPy::myFuel" :> One))
SFlue == Mix(StoichFluids, ("TESPy::myAir" :> Q(8, 10)) @@ ("TESPy::myFuel_fg" :> Q(2, 10)))
SFlueOff == Mix(StoichFluids, ("TESPy::myAir" :> Q(3, 10)) @@ ("TESPy::myFuel_fg" :> Q(6, 10))
                              @@ ("TESPy::myFuel" :> Q(1, 10)))

\* 0.4096 kg/s, 4096 quanta: a mass flow that fills a significand of 12 bits,
\* so that the next larger stored value is two quanta away
MEdge == Q(4096, 10000)

\* the declared fuel and air of the stoichiometric chamber of a solve
StdFuel == Dict(("CH4" :> One))
StdAir == Dict(("O2" :> Q(1, 4)) @@ ("N2" :> Q(3, 4)))
StdFuelAlias == [is_set |-> TRUE, val |-> "myFuel"]
StdAirAlias == [is_set |-> TRUE, val |-> "myAir"]

\* the configuration and the results of a successful comp_init
ReadyConfig(v) ==
    /\ variant = v
    /\ phase = "ready"
    /\ nw_fluids = IF v = "stoich" THEN StoichFluids ELSE GenericFluids
    /\ fuel = IF v = "stoich" THEN StdFuel ELSE Unset
    /\ air = IF v = "stoich" THEN StdAir ELSE Unset
    /\ fuel_alias = IF v = "stoich" THEN StdFuelAlias ELSE UnsetAlias
    /\ air_alias = IF v = "stoich" THEN StdAirAlias ELSE UnsetAlias
    /\ fuel_list = IF v = "stoich" THEN <<>> ELSE comp_init_generic(GenericFluids).fuel_list
    /\ fuels = IF v = "stoich" THEN <<>> ELSE comp_init_generic(GenericFluids).fuels
    /\ lhv = IF v = "stoich"
             THEN comp_init_stoich(StdFuel, StdFuelAlias, StdAir, StdAirAlias).lhv
             ELSE Zero
    /\ air_min = IF v = "stoich"
                 THEN comp_init_stoich(StdFuel, StdFuelAlias, StdAir, StdAirAlias).air_min
                 ELSE Zero
    /\ ret = NoRet

\* enthalpies of the streams: inlets, a hot outlet, and an outlet below the
\* 7.5e5 J/kg that convergence_check accepts
HIn == R(300000)
HOut == R(1500000)
HOutLow == R(500000)

\* mass flows of the streams: multiples of FloatUnit that a significand of
\* MantBits bits holds exactly
MAir == Q(1, 4)
MFuel == Q(1, 100)
MFlue == Q(26, 100)

XWater == Mix(GenericFluids, ("H2O" :> One))

\* cooling water of the engine: inlets and outlets of the two loops
CoolIn == Stream(MFlue, R(200000), XWater)
CoolOut == Stream(MFlue, R(300000), XWater)

\* streams of the generic chamber and the engine
\* a cooling loop before the solver has converged: its inlet carries fuel
\* and oxygen, and less flow than its outlet
XLoopOff == Mix(GenericFluids, ("CH4" :> Q(1, 4)) @@ ("O2" :> Q(1, 4))
                               @@ ("H2O" :> Q(1, 2)))
CoolInOff == Stream(MFuel, R(200000), XLoopOff)

Air(m) == Stream(m, HIn, XAir)
Fuel(x, m) == Stream(m, HIn, x)
Flue(x, m, h) == Stream(m, h, x)

\* a parameter of the cooling loops the user has not fixed
LoopUnset == [val |-> Zero, is_set |-> FALSE]

\* none of Q1, Q2, pr1, pr2, zeta1, zeta2 is fixed
LoopsFree ==
    /\ Q1 = LoopUnset
    /\ Q2 = LoopUnset
    /\ pr1 = LoopUnset
    /\ pr2 = LoopUnset
    /\ zeta1 = LoopUnset
    /\ zeta2 = LoopUnset

\* a set-up component with combustion inlets i1, i2 and flue gas outlet o;
\* the first cooling loop of the engine runs from ci to co
LoadedLoop(v, ci, co, i1, i2, o, l, t) ==
    /\ ReadyConfig(v)
    /\ inl = IF v = "engine" THEN <<ci, CoolIn, i1, i2>> ELSE <<i1, i2>>
    /\ outl = IF v = "engine" THEN <<co, CoolOut, o>> ELSE <<o>>
    /\ lamb = l
    /\ ti = t
    /\ P = [val |-> IF v = "engine" THEN R(200000) ELSE Zero]
    /\ Qloss = [val |-> IF v = "engine" THEN R(50000) ELSE Zero]
    /\ LoopsFree

Loaded(v, i1, i2, o, l, t) == LoadedLoop(v, CoolIn, CoolOut, i1, i2, o, l, t)

LambUnset == [val |-> Zero, is_set |-> FALSE]
LambFixed(x) == [val |-> x, is_set |-> TRUE]
TiUnset == [val |-> Zero, is_set |-> FALSE]
TiFixed == [val |-> R(500000), is_set |-> TRUE]

\* ---- the states the solver calls start from ----
AirOpts == {Air(MAir), Air(MFuel)}
FuelOpts == {Fuel(XMethane, MFuel), Fuel(XFuelMix, MFuel), Fuel(XFuelLean, MFuel)}
InletPairs ==
    {<<a, f>> : a \in AirOpts, f \in FuelOpts}
    \cup {<<f, a>> : a \in AirOpts, f \in FuelOpts}
    \cup {<<Air(Zero), Fuel(XMethane, MFuel)>>, <<Air(RNeg(MFuel)), Fuel(XMethane, MFuel)>>,
          <<Air(MAir), Fuel(XMethane, RNeg(MFuel))>>, <<Air(MAir), Air(MAir)>>}
OutletOpts == {Flue(XFlueGas, MFlue, HOut), Flue(XFlueDry, MFlue, HOut),
               Flue(XFlueOff, RNeg(MFuel), HOutLow)}
\* lamb and ti as the user left them
ParamOpts == {<<LambUnset, TiUnset>>, <<LambUnset, TiFixed>>,
              <<LambFixed(R(2)), TiUnset>>, <<LambFixed(Q(1, 2)), TiFixed>>}

SInletPairs ==
    {<<Stream(a, HIn, SAir), Stream(MFuel, HIn, SFuel)>> : a \in {MAir, MFuel}}
    \cup {<<Stream(MFuel, HIn, SFuel), Stream(a, HIn, SAir)>> : a \in {MAir, MFuel}}
SOutletOpts == {Stream(MFlue, HOut, SFlue), Stream(RNeg(MFuel), HOutLow, SFlueOff)}

InitSolve ==
    \/ \E v \in {"chamber", "engine"}, ip \in InletPairs, o \in OutletOpts,
          pr \in ParamOpts :
          Loaded(v, ip[1], ip[2], o, pr[1], pr[2])
    \/ \E ip \in SInletPairs, o \in SOutletOpts, pr \in ParamOpts :
          Loaded("stoich", ip[1], ip[2], o, pr[1], pr[2])

\* the calls that build the residual vector and the post-processing
NextSolve ==
    \/ \E fluid \in SeqToSet(nw_fluids) : ReactionBalance(fluid)
    \/ Equations
    \/ LambdaFunc
    \/ EnergyBalance
    \/ CalcParameters
    \/ SetAttrLamb
    \/ Return

Init == InitSolve
Next == NextSolve
Spec == Init /\ [][Next]_vars

\* ---- the states the Jacobian is built at ----
\* Lean mixtures with the fuel at either inlet; an air inlet whose stored
\* flow fills the significand; an outlet that still carries fuel; a rich
\* mixture whose lambda the user fixed to a lean value, and a lean one whose
\* lambda the user fixed to a rich value
InitDeriv ==
    \/ \E l \in {LambUnset, LambFixed(R(2))} :
          \/ Loaded("chamber", Air(MAir), Fuel(XMethane, MFuel),
                    Flue(XFlueGas, MFlue, HOut), l, TiUnset)
          \/ Loaded("engine", Air(MAir), Fuel(XMethane, MFuel),
                    Flue(XFlueGas, MFlue, HOut), l, TiUnset)
          \/ Loaded("stoich", Stream(MAir, HIn, SAir), Stream(MFuel, HIn, SFuel),
                    Stream(MFlue, HOut, SFlue), l, TiUnset)
    \/ Loaded("chamber", Fuel(XMethane, MFuel), Air(MAir),
              Flue(XFlueGas, MFlue, HOut), LambUnset, TiUnset)
    \/ Loaded("chamber", Air(MEdge), Fuel(XMethane, MFuel),
              Flue(XFlueGas, MFlue, HOut), LambUnset, TiUnset)
    \/ Loaded("chamber", Air(MAir), Fuel(XFuelMix, MFuel),
              Flue(XFlueOff, MFlue, HOut), LambFixed(R(2)), TiUnset)
    \/ Loaded("chamber", Air(MFuel), Fuel(XMethane, MFuel),
              Flue(XFlueGas, MFlue, HOut), LambFixed(R(2)), TiUnset)
    \/ Loaded("stoich", Stream(MAir, HIn, SAir), Stream(MFuel, HIn, SFuel),
              Stream(MFlue, HOut, SFlue), LambFixed(Q(1, 2)), TiUnset)

NextDeriv ==
    \/ \E fluid \in SeqToSet(nw_fluids) : ReactionBalance(fluid)
    \/ Equations
    \/ \E dx \in {"m", "fluid"}, pos \in RbPositions, fluid \in SeqToSet(nw_fluids) :
          RbNumericDeriv(dx, pos, fluid)
    \/ Derivatives
    \/ Return

SpecDeriv == InitDeriv /\ [][NextDeriv]_vars

\* ---- the states convergence_check is called at between iterations ----
\* flags a stream can carry: mass flow fixed by the user, every property
\* fixed by the user, start values read from a file
MSet(s_) == [s_ EXCEPT !.m_set = TRUE]
AllSet(s_) == [s_ EXCEPT !.m_set = TRUE, !.h_set = TRUE,
                         !.fluid_set = [f \in DOMAIN s_.fluid |-> TRUE]]
FromCsv(s_) == [s_ EXCEPT !.init_csv = TRUE]
FracSet(s_, f) == [s_ EXCEPT !.fluid_set[f] = TRUE]

\* a flue gas whose nitrogen matches the inlets Air(MAir), Fuel(., MFuel)
XFlueFit == Mix(GenericFluids, ("N2" :> Q(72, 100)) @@ ("O2" :> Q(16, 100))
                               @@ ("CO2" :> Q(5, 100)) @@ ("H2O" :> Q(7, 100)))

ConvAirs == {Air(MAir), Air(Zero), Air(RNeg(MFuel)), MSet(Air(RNeg(MFuel))),
             FromCsv(Air(MAir))}
ConvFuels == {Fuel(XMethane, MFuel), Fuel(XMethane, RMul(R(2), MFuel)),
              Fuel(XMethane, One), Fuel(XFuelLean, MFuel),
              MSet(Fuel(XMethane, One)), Fuel(XMethane, Zero)}
ConvPairs ==
    {<<a, f>> : a \in ConvAirs, f \in ConvFuels}
    \cup {<<f, a>> : a \in ConvAirs, f \in ConvFuels}
    \cup {<<Air(MAir), Air(MAir)>>}
ConvOutlets == {Flue(XFlueFit, MFlue, HOut), Flue(XFlueGas, MFlue, HOut),
                Flue(XFlueOff, RNeg(MFuel), HOutLow),
                AllSet(Flue(XFlueOff, RNeg(MFuel), HOutLow)),
                FromCsv(Flue(XFlueOff, RNeg(MFuel), HOutLow))}
ConvLambs == {LambUnset, [val |-> R(3), is_set |-> FALSE], LambFixed(R(2)),
              LambFixed(Q(1, 2)), [val |-> Q(3, 2), is_set |-> FALSE]}

SConvPairs ==
    {<<Stream(a, HIn, SAir), Stream(f, HIn, SFuel)>> :
        a \in {MAir, RNeg(MFuel)}, f \in {MFuel, One}}
    \cup {<<MSet(Stream(RNeg(MFuel), HIn, SAir)), Stream(MFuel, HIn, SFuel)>>}
SConvOutlets == {Stream(MFlue, HOut, SFlue), Stream(RNeg(MFuel), HOutLow, SFlueOff),
                 AllSet(Stream(RNeg(MFuel), HOutLow, SFlueOff))}

InitConv ==
    \/ \E v \in {"chamber", "engine"}, ip \in ConvPairs, o \in ConvOutlets,
          l \in ConvLambs :
          Loaded(v, ip[1], ip[2], o, l, TiUnset)
    \/ \E ip \in SConvPairs, o \in SConvOutlets, l \in ConvLambs :
          Loaded("stoich", ip[1], ip[2], o, l, TiUnset)

NextConv ==
    \/ ConvergenceCheck
    \/ Return

SpecConv == InitConv /\ [][NextConv]_vars

\* ---- streams and lambda with quantities the user fixed ----
HSet(s_) == [s_ EXCEPT !.h_set = TRUE]
\* a flue gas every free fraction of which convergence_check rewrites
XFlueWild == Mix(GenericFluids, ("N2" :> Q(2, 10)) @@ ("O2" :> Q(3, 10))
                                @@ ("CO2" :> Q(2, 10)) @@ ("H2O" :> Q(2, 10))
                                @@ ("CH4" :> Q(1, 10)))
SFlueWild == Mix(StoichFluids, ("TESPy::myAir" :> Q(1, 10))
                               @@ ("TESPy::myFuel_fg" :> Q(6, 10))
                               @@ ("TESPy::myFuel" :> Q(3, 10)))

FixFlags(s_) == {s_, MSet(s_), AllSet(s_)}
FixPairs ==
    {<<a, f>> : a \in FixFlags(Air(RNeg(MFuel))) \cup {Air(MAir)},
                f \in FixFlags(Fuel(XMethane, RNeg(MFuel)))
                      \cup {MSet(Fuel(XMethane, One)), Fuel(XMethane, One)}}
    \cup {<<f, a>> : a \in {Air(MAir), MSet(Air(RNeg(MFuel)))},
                     f \in {MSet(Fuel(XMethane, One)), Fuel(XMethane, One)}}
FixOutletFlags(s_) ==
    {s_, MSet(s_), HSet(s_), AllSet(s_)}
    \cup {FracSet(s_, f) : f \in {g \in DOMAIN s_.fluid : ~IsZero(s_.fluid[g])}}
FixLambs == {LambUnset, LambFixed(Q(1, 2)), [val |-> Q(3, 2), is_set |-> FALSE]}

InitFix ==
    \/ \E v \in {"chamber", "engine"}, ip \in FixPairs,
          o \in FixOutletFlags(Flue(XFlueWild, RNeg(MFuel), HOutLow)),
          l \in {LambUnset, LambFixed(Q(1, 2))} :
          Loaded(v, ip[1], ip[2], o, l, TiUnset)
    \/ \E a \in FixFlags(Stream(RNeg(MFuel), HIn, SAir)),
          f \in FixFlags(Stream(RNeg(MFuel), HIn, SFuel)),
          o \in FixOutletFlags(Stream(RNeg(MFuel), HOutLow, SFlueWild)),
          l \in FixLambs :
          Loaded("stoich", a, f, o, l, TiUnset)

NextFix ==
    \/ ConvergenceCheck
    \/ InitialiseFluids
    \/ Return

SpecFix == InitFix /\ [][NextFix]_vars

\* ---- the components comp_init is run on ----
\* every choice of network fluids for the generic chamber and the engine
FluidLists == {SelectIn(Species, S) : S \in SUBSET SpeciesSet}

\* declarations of fuel and air of the stoichiometric chamber
NotADict == [is_set |-> TRUE, is_dict |-> FALSE, val |-> <<>>]
SetupFuels == {Unset, NotADict, StdFuel,
               Dict(("CH4" :> Q(1, 2)) @@ ("H2" :> Q(1, 2))),
               Dict(("CH4" :> Q(1, 2)) @@ ("N2" :> Q(1, 2))),
               Dict(("N2" :> One)),
               Dict(("CO2" :> Q(1, 2)) @@ ("N2" :> Q(1, 2)))}
SetupAirs == {Unset, NotADict, StdAir, Dict(("N2" :> One)),
              Dict(("O2" :> Zero) @@ ("N2" :> One))}
SetupFuelAliases == {UnsetAlias, StdFuelAlias, [is_set |-> TRUE, val |-> "TESPy::myFuel"]}
SetupAirAliases == {UnsetAlias, StdAirAlias, [is_set |-> TRUE, val |-> "TESPy::myAir"]}

\* a constructed component before comp_init
Constructed(v, fl, fu, fa, ai, aa) ==
    /\ variant = v
    /\ phase = "new"
    /\ nw_fluids = fl
    /\ fuel = fu
    /\ fuel_alias = fa
    /\ air = ai
    /\ air_alias = aa
    /\ fuel_list = <<>>
    /\ fuels = <<>>
    /\ lhv = Zero
    /\ air_min = Zero
    /\ inl = <<>>
    /\ outl = <<>>
    /\ lamb = LambUnset
    /\ ti = TiUnset
    /\ P = [val |-> Zero]
    /\ Qloss = [val |-> Zero]
    /\ LoopsFree
    /\ ret = NoRet

InitSetup ==
    \/ \E v \in {"chamber", "engine"}, fl \in FluidLists :
          Constructed(v, fl, Unset, UnsetAlias, Unset, UnsetAlias)
    \/ \E fu \in SetupFuels, fa \in SetupFuelAliases, ai \in SetupAirs,
          aa \in SetupAirAliases :
          Constructed("stoich", StoichFluids, fu, fa, ai, aa)

NextSetup ==
    \/ CompInitChamber
    \/ CompInitEngine
    \/ CompInitStoich

SpecSetup == InitSetup /\ [][NextSetup]_vars

\* ---- the residual vector under every choice of fixed parameters ----
EqInletPairs ==
    {<<Air(MAir), Fuel(XMethane, MFuel)>>, <<Fuel(XFuelMix, MFuel), Air(MAir)>>}

InitEq ==
    \/ \E v \in {"chamber", "engine"}, ci \in {CoolIn, CoolInOff},
          ip \in EqInletPairs, pr \in ParamOpts :
          LoadedLoop(v, ci, CoolOut, ip[1], ip[2], Flue(XFlueGas, MFlue, HOut),
                     pr[1], pr[2])
    \/ \E ip \in SInletPairs, pr \in ParamOpts :
          Loaded("stoich", ip[1], ip[2], Stream(MFlue, HOut, SFlue), pr[1], pr[2])

NextEq ==
    \/ Equations
    \/ \E fluid \in SeqToSet(nw_fluids) : ReactionBalance(fluid)
    \/ CalcTi
    \/ TiFunc
    \/ \E name \in LoopNames : SetAttrLoop(name)
    \/ Return

SpecEq == InitEq /\ [][NextEq]_vars

\* ---- the Jacobian under the choices of fixed parameters ----
\* the parameters of the cooling loops named in fixed are fixed by the user
LoopParam(name, fixed) ==
    IF name \in fixed THEN [val |-> LoopFixed[name], is_set |-> TRUE]
    ELSE LoopUnset

LoopsFixed(fixed) ==
    /\ Q1 = LoopParam("Q1", fixed)
    /\ Q2 = LoopParam("Q2", fixed)
    /\ pr1 = LoopParam("pr1", fixed)
    /\ pr2 = LoopParam("pr2", fixed)
    /\ zeta1 = LoopParam("zeta1", fixed)
    /\ zeta2 = LoopParam("zeta2", fixed)

\* an engine before the solver has converged: the first cooling loop and
\* the combustion streams are out of balance
LoadedEngine(l, t, fixed) ==
    /\ ReadyConfig("engine")
    /\ inl = <<CoolInOff, CoolIn, Air(MAir), Fuel(XFuelMix, MFuel)>>
    /\ outl = <<CoolOut, CoolOut, Flue(XFlueGas, MFuel, HOut)>>
    /\ lamb = l
    /\ ti = t
    /\ P = [val |-> R(200000)]
    /\ Qloss = [val |-> R(50000)]
    /\ LoopsFixed(fixed)

\* lambda as reaction_balance cached it on these streams in the iteration
\* before, or fixed by the user
JacLambCached == [val |-> Q(25, 24), is_set |-> FALSE]
SJacLambCached == [val |-> Q(25, 16), is_set |-> FALSE]
JacTis == {TiUnset, TiFixed}

\* every choice of ti and of the six parameters of the cooling loops with a
\* fixed lambda; with a cached lambda none or all of the six
InitJac ==
    \/ \E t \in JacTis, fixed \in SUBSET LoopNames :
          LoadedEngine(LambFixed(R(2)), t, fixed)
    \/ \E t \in JacTis, fixed \in {{}, LoopNames} :
          LoadedEngine(JacLambCached, t, fixed)
    \/ \E o \in {Flue(XFlueGas, MFlue, HOut), Flue(XFlueOff, MFuel, HOutLow)},
          l \in {JacLambCached, LambFixed(R(2))}, t \in JacTis :
          Loaded("chamber", Air(MAir), Fuel(XFuelMix, MFuel), o, l, t)
    \/ \E o \in {Stream(MFlue, HOut, SFlue), Stream(MFuel, HOutLow, SFlueOff)},
          l \in {SJacLambCached, LambFixed(R(2))}, t \in JacTis :
          Loaded("stoich", Stream(MAir, HIn, SAir), Stream(MFuel, HIn, SFuel), o,
                 l, t)

NextJac ==
    \/ Equations
    \/ Derivatives
    \/ Return

SpecJac == InitJac /\ [][NextJac]_vars


\* ------------------------------------------------------------------------
\* Properties of rb_numeric_deriv
\* ------------------------------------------------------------------------
\* C1: a call rb_numeric_deriv(dx, pos, fluid) that returns leaves every
\* field of every inlet and outlet stream (mass flow, pressure, enthalpy,
\* every mass fraction) exactly as it was before the call.
C1_StreamsRestored ==
    [][(ret'.op = "rb_numeric_deriv" /\ ret'.err = "")
         => (inl' = inl /\ outl' = outl)]_vars

RMin(a, b) == IF RLe(a, b) THEN a ELSE b
RMax(a, b) == IF RGe(a, b) THEN a ELSE b

\* the two evaluation points and the quotient that C2 states for the key f
\* of the stream at pos, whose fraction is v before the call
ClampedCentral(c, pos, fluid, f, v, evals, deriv) ==
    /\ evals = <<RMin(RAdd(v, rb_df_step), One), RMax(RSub(v, rb_df_step), Zero)>>
    /\ deriv = RDiv(RSub(reaction_balance(SetX(c, pos, f, evals[1]), fluid).res,
                         reaction_balance(SetX(c, pos, f, evals[2]), fluid).res),
                    RMul(R(2), rb_df_step))

\* C2 (as stated): for dx = 'fluid' and every key, the reaction balance is
\* evaluated at min(v + d, 1) and at max(v - d, 0), v being the stored
\* fraction and d = 1e-5, and the difference of the two is divided by 2 * d;
\* so for v in (1 - d, 1] the lower point is v - d.
C2_ClampedPoints ==
    [][(ret'.op = "rb_numeric_deriv" /\ ret'.err = "" /\ ret'.args[1] = "fluid")
         => \A k \in 1..Len(nw_fluids) :
               ClampedCentral(Self, ret'.args[2], ret'.args[3], nw_fluids[k],
                              GetStream(Self, ret'.args[2]).fluid[nw_fluids[k]],
                              ret'.evals[k], ret'.val[k])]_vars

\* the two evaluation points and the quotient with the lower point taken two
\* steps below the upper one
CentralFromUpper(c, pos, fluid, f, v, evals, deriv) ==
    /\ evals[1] = RMin(RAdd(v, rb_df_step), One)
    /\ evals[2] = RMax(RSub(evals[1], RMul(R(2), rb_df_step)), Zero)
    /\ Len(evals) = 2
    /\ deriv = RDiv(RSub(reaction_balance(SetX(c, pos, f, evals[1]), fluid).res,
                         reaction_balance(SetX(c, pos, f, evals[2]), fluid).res),
                    RMul(R(2), rb_df_step))

\* C2 (amended): for dx = 'fluid' and every key, the reaction balance is
\* evaluated at u = min(v + d, 1) and at max(u - 2 * d, 0), and the
\* difference of the two is divided by 2 * d whether or not a point was
\* clamped; so for v in (1 - d, 1] the lower point is 1 - 2 * d, and for v in
\* [0, d) it is 0.
C2_LowerFromUpper ==
    [][(ret'.op = "rb_numeric_deriv" /\ ret'.err = "" /\ ret'.args[1] = "fluid")
         => \A k \in 1..Len(nw_fluids) :
               CentralFromUpper(Self, ret'.args[2], ret'.args[3], nw_fluids[k],
                                GetStream(Self, ret'.args[2]).fluid[nw_fluids[k]],
                                ret'.evals[k], ret'.val[k])]_vars

\* rb_numeric_deriv('fluid', pos, fluid) has returned for a stream with a
\* fraction of 1 and a fraction of 0: the first was evaluated at 1 and at
\* 1 - 2 * d, the second at d and at 0
C2_Witness ==
    /\ ret.op = "rb_numeric_deriv" /\ ret.err = "" /\ ret.args[1] = "fluid"
    /\ \E k \in 1..Len(nw_fluids) :
          /\ GetStream(Self, ret.args[2]).fluid[nw_fluids[k]] = One
          /\ ret.evals[k] = <<One, RSub(One, RMul(R(2), rb_df_step))>>
    /\ \E k \in 1..Len(nw_fluids) :
          /\ GetStream(Self, ret.args[2]).fluid[nw_fluids[k]] = Zero
          /\ ret.evals[k] = <<rb_df_step, Zero>>

\* ------------------------------------------------------------------------
\* Properties of equations() and lambda
\* ------------------------------------------------------------------------
\* the number of writes to lamb.val that a log records
WritesOf(log) == Cardinality({k \in 1..Len(log) : log[k].ev = "write"})

\* C3 (as stated): within one call of equations() with lambda not
\* user-fixed, lamb.val is written exactly once.
C3_WrittenOnce ==
    (ret.op = "equations" /\ ret.err = "" /\ ~lamb.is_set)
        => WritesOf(ret.log) = 1

\* C3 (amended): within one call of equations() with lambda not user-fixed,
\* lamb.val is written once per species residual, every access to it is made
\* by reaction_balance with one and the same value, and that value is the
\* one lamb.val holds when equations() returns: nothing writes it after the
\* species residuals.
C3_WrittenPerSpecies ==
    (ret.op = "equations" /\ ret.err = "" /\ ~lamb.is_set)
        => /\ WritesOf(ret.log) = Len(nw_fluids)
           /\ \A k \in 1..Len(ret.log) :
                 /\ ret.log[k].by = "reaction_balance"
                 /\ ret.log[k].val = lamb.val

\* equations() of an engine has returned with lambda not user-fixed and has
\* written lamb.val more than once
C3_Witness ==
    /\ ret.op = "equations" /\ ret.err = "" /\ ~lamb.is_set
    /\ variant = "engine"
    /\ WritesOf(ret.log) > 1
    /\ RGt(lamb.val, One)

\* the lambda that reaction_balance caches on the streams of c
CachedLambda(c) ==
    reaction_balance([c EXCEPT !.lamb.is_set = FALSE], c.fluids[1])

\* C4: for the generic chamber and the engine, with lambda fixed to the
\* value reaction_balance caches on the same streams, lambda_func returns 0,
\* whichever inlet carries the fuel.
C4_LambdaFuncAgrees ==
    (/\ ret.op = "lambda_func"
     /\ variant \in {"chamber", "engine"}
     /\ CachedLambda(Self).err = ""
     /\ CachedLambda(Self).c.lamb.val = lamb.val)
        => (ret.err = "" /\ ret.val = <<Zero>>)

\* the component with the complete states of in1 and in2 exchanged
SwapInlets(c) == [c EXCEPT !.inl = <<c.inl[2], c.inl[1]>>]

\* C5: for the generic chamber, exchanging the states of in1 and in2 leaves
\* reaction_balance(fluid) of every species, the cached lambda,
\* energy_balance(), calc_ti(), lambda_func() and the lambda reported by
\* calc_parameters() unchanged.
C5_InletsInterchangeable ==
    (phase = "ready" /\ variant = "chamber" /\ ret.op = "")
        => /\ \A k \in 1..Len(nw_fluids) :
                 reaction_balance(SwapInlets(Self), nw_fluids[k])
                     = [reaction_balance(Self, nw_fluids[k])
                            EXCEPT !.c = SwapInlets(@)]
           /\ energy_balance(SwapInlets(Self)) = energy_balance(Self)
           /\ calc_ti(SwapInlets(Self)) = calc_ti(Self)
           /\ lambda_func(SwapInlets(Self)) = lambda_func(Self)
           /\ calc_parameters(SwapInlets(Self)).err = calc_parameters(Self).err
           /\ calc_parameters(SwapInlets(Self)).c.lamb
                  = calc_parameters(Self).c.lamb

\* C7: energy_balance of the generic chamber and of the engine returns a
\* residual; a failure of the saturation lookup never reaches the caller.
C7_LookupRecovered ==
    (ret.op = "energy_balance" /\ variant \in {"chamber", "engine"})
        => ret.err = ""

\* ------------------------------------------------------------------------
\* Properties of convergence_check
\* ------------------------------------------------------------------------
RWithin(x, lo, hi) == RGe(x, lo) /\ RLe(x, hi)

\* the unset fraction of f in the outlet o is within the bounds that the
\* generic convergence_check enforces; m_f / m is the inlet average of f
FractionInBounds(c, o, f) ==
    CASE f = "O2" -> RWithin(o.fluid[f], Q(1, 1000), Q(25, 100))
      [] f \in {"CO2", "H2O"} -> RWithin(o.fluid[f], Q(1, 1000), Q(1, 10))
      [] f \in FuelSetOf(c) -> RLe(o.fluid[f], Zero)
      [] OTHER ->
           RLe(RAbs(RSub(o.fluid[f],
                         RDiv(RSumSeq([k \in 1..Len(CombInl(c)) |->
                                  RMul(CombInl(c)[k].fluid[f], CombInl(c)[k].m)]),
                              cc_m_total(CombInl(c))))),
               Q(3, 100))

\* the same for the stoichiometric chamber
FractionInBoundsStoich(c, o, f) ==
    CASE f = AirName(c) -> RWithin(o.fluid[f], Q(5, 10), Q(95, 100))
      [] f = FlueGasName(c) -> RWithin(o.fluid[f], Q(5, 100), Q(5, 10))
      [] f = FuelName(c) -> RLe(o.fluid[f], Zero)
      [] OTHER -> TRUE

\* a physically valid state: every mass flow is positive, every unset outlet
\* fraction is within the heuristic bounds, and the outlet enthalpy is not
\* below the value the check accepts
PhysicallyValid(c) ==
    /\ \A k \in 1..Len(c.inl) : RGt(c.inl[k].m, Zero)
    /\ \A k \in 1..Len(c.outl) : RGt(c.outl[k].m, Zero)
    /\ \A k \in 1..Len(CombOutl(c)) :
          /\ RGe(CombOutl(c)[k].h, R(750000))
          /\ \A f \in SeqToSet(c.fluids) :
                \/ CombOutl(c)[k].fluid_set[f]
                \/ IF c.variant = "stoich"
                   THEN FractionInBoundsStoich(c, CombOutl(c)[k], f)
                   ELSE FractionInBounds(c, CombOutl(c)[k], f)

\* C6: one call of convergence_check on a physically valid state leaves
\* every stream value and lambda unchanged, and on any state a second call
\* in a row changes nothing that the first one left.
C6_Idempotent ==
    [][(ret'.op = "convergence_check" /\ ret'.err = "")
         => /\ PhysicallyValid(Self)
                  => (inl' = inl /\ outl' = outl /\ lamb' = lamb)
            /\ convergence_check(Self').err = ""
            /\ convergence_check(Self').c = Self']_vars

\* C9: convergence_check completes without raising, whatever the stream
\* state between two iterations is.
C9_NeverFails ==
    ret.op = "convergence_check" => ret.err = ""

\* ------------------------------------------------------------------------
\* Properties of comp_init
\* ------------------------------------------------------------------------
\* no supported fuel is declared: none among the network's fluids (generic
\* chamber, engine), none in the fuel mixture (stoichiometric chamber)
NoSupportedFuel ==
    IF variant = "stoich"
    THEN fuel.is_set /\ fuel.is_dict /\ DOMAIN fuel.val \cap SupportedFuelSet = {}
    ELSE SeqToSet(nw_fluids) \cap SupportedFuelSet = {}

\* C8: comp_init raises whenever no supported fuel is found, so that no
\* component is set up with an LHV of 0 and an air_min of 0.
C8_NoFuelRejected ==
    (ret.op = "comp_init" /\ NoSupportedFuel)
        => (ret.err # "" /\ phase = "failed")

\* ------------------------------------------------------------------------
\* Properties of a user-fixed lambda
\* ------------------------------------------------------------------------
\* the residual of fluid that reaction_balance returns on c is the one the
\* fixed lamb.val selects: O2 and CO2 of the generic chamber and the engine,
\* air of the stoichiometric chamber
FixedLambdaUsed(c, fluid, res) ==
    IF c.variant = "stoich"
    THEN fluid = AirName(c)
            => res = RAdd(IF RGe(c.lamb.val, One)
                          THEN RNeg(RMul(c.air_min, st_m_fuel(c)))
                          ELSE RNeg(st_m_air(c)),
                          InOutBalance(c.inl, c.outl, fluid))
    ELSE /\ fluid = "O2"
            => res = RAdd(RNeg(RMul(IF RLt(c.lamb.val, One) THEN rb_n_oxygen(c)
                                    ELSE RDiv(rb_n_oxygen(c), c.lamb.val),
                                    molar_masses["O2"])),
                          InOutBalance(CombInl(c), CombOutl(c), fluid))
         /\ fluid = "CO2"
            => res = RAdd(RMul(IF RLt(c.lamb.val, One)
                               THEN RSub(rb_n_c(c),
                                         RSub(RAdd(RDiv(rb_n_h(c), R(4)), rb_n_c(c)),
                                              rb_n_oxygen(c)))
                               ELSE rb_n_c(c),
                               molar_masses["CO2"]),
                          InOutBalance(CombInl(c), CombOutl(c), fluid))

\* C10: with lambda user-fixed, none of reaction_balance, equations,
\* rb_numeric_deriv and derivatives writes lamb.val, and reaction_balance
\* takes the lambda < 1 branch and the O2 term from the fixed value, whatever
\* the oxygen supply of the inlets is.
C10_FixedLambdaKept ==
    [][(/\ lamb.is_set
        /\ ret'.op \in {"reaction_balance", "equations", "rb_numeric_deriv",
                        "derivatives"})
         => /\ lamb' = lamb
            /\ WritesOf(ret'.log) = 0
            /\ (ret'.op = "reaction_balance" /\ ret'.err = "")
                  => FixedLambdaUsed(Self, ret'.args[1], ret'.val[1])]_vars

\* the oxygen ratio of the inlets of c is on the other side of 1 than the
\* fixed lambda
SupplyDisagrees(c) ==
    IF c.variant = "stoich"
    THEN RLt(c.lamb.val, One)
            /\ RGe(st_m_air(c), RMul(c.air_min, st_m_fuel(c)))
    ELSE RGe(c.lamb.val, One)
            /\ RLt(rb_n_oxygen(c), RAdd(RDiv(rb_n_h(c), R(4)), rb_n_c(c)))

\* reaction_balance has returned the O2 residual (the air residual in the
\* stoichiometric chamber) under a fixed lambda that the oxygen supply
\* contradicts, and lamb.val still is the fixed value
C10_Witness ==
    /\ ret.op = "reaction_balance" /\ ret.err = ""
    /\ lamb.is_set
    /\ ret.args[1] \in {"O2", AirName(Self)}
    /\ SupplyDisagrees(Self)
    /\ lamb.val \in {R(2), Q(1, 2)}

\* ------------------------------------------------------------------------
\* Properties of the rich and the lean reaction balance
\* ------------------------------------------------------------------------
\* n_oxygen_stoich of reaction_balance
rb_n_oxygen_stoich(c) == RAdd(RDiv(rb_n_h(c), R(4)), rb_n_c(c))

\* the excess terms that reaction_balance works with on c, whose lamb.val is
\* the lambda of the call
ExcessC(c) ==
    rb_n_c_exc(RLt(c.lamb.val, One), RSub(rb_n_oxygen_stoich(c), rb_n_oxygen(c)))
ExcessH(c) ==
    rb_n_h_exc(RLt(c.lamb.val, One), RSub(rb_n_oxygen_stoich(c), rb_n_oxygen(c)))

\* larger fuel flows to compare a state with
MoreFuelFlows == {MFuel, RMul(R(2), MFuel), MAir}

\* combustion inlet k of c carries fuel and no oxygen
IsFuelInlet(c, k) ==
    /\ RGt(cc_fuel(c, CombInl(c)[k]), Zero)
    /\ IsZero(CombInl(c)[k].fluid["O2"])

\* c with the mass flow of combustion inlet k replaced
WithInletFlow(c, k, m) == [c EXCEPT !.inl[k + CombOff(c)].m = m]

\* reaction_balance has returned on a rich state with lambda not fixed; the
\* same call on the state with the larger flow m at the fuel inlet k returns
\* rich as well
RichPair(k, m) ==
    /\ ret.op = "reaction_balance" /\ ret.err = ""
    /\ variant \in {"chamber", "engine"}
    /\ ~lamb.is_set /\ RLt(lamb.val, One)
    /\ IsFuelInlet(Self, k)
    /\ RGt(m, CombInl(Self)[k].m)
    /\ reaction_balance(WithInletFlow(Self, k, m), ret.args[1]).err = ""
    /\ RLt(reaction_balance(WithInletFlow(Self, k, m), ret.args[1]).c.lamb.val, One)

\* the state with more fuel has the smaller lambda and the larger excess
\* terms
MoreFuelLessLambda(k, m) ==
    /\ RLt(reaction_balance(WithInletFlow(Self, k, m), ret.args[1]).c.lamb.val,
           lamb.val)
    /\ RGt(ExcessC(reaction_balance(WithInletFlow(Self, k, m), ret.args[1]).c),
           ExcessC(Self))
    /\ RGt(ExcessH(reaction_balance(WithInletFlow(Self, k, m), ret.args[1]).c),
           ExcessH(Self))

\* C11 (as stated): of two rich states with lambda not fixed that differ
\* only in a larger flow of the fuel inlet, the one with more fuel has the
\* strictly smaller cached lambda and the strictly larger excess-C and
\* excess-H.
C11_MoreFuelRicher ==
    \A k \in 1..2, m \in MoreFuelFlows :
        RichPair(k, m) => MoreFuelLessLambda(k, m)

\* C11 (amended): the same, for states whose oxygen supply and whose
\* stoichiometric oxygen demand are positive.
C11_MoreFuelRicherPositive ==
    \A k \in 1..2, m \in MoreFuelFlows :
        (/\ RichPair(k, m)
         /\ RGt(rb_n_oxygen(Self), Zero)
         /\ RGt(rb_n_oxygen_stoich(Self), Zero))
            => MoreFuelLessLambda(k, m)

\* a rich state with positive oxygen supply has been compared with a state
\* of more fuel
C11_Witness ==
    \E k \in 1..2, m \in MoreFuelFlows :
        /\ RichPair(k, m)
        /\ RGt(rb_n_oxygen(Self), Zero)
        /\ RGt(rb_n_oxygen_stoich(Self), Zero)
        /\ RGt(lamb.val, Zero)

\* the residual of fluid on c when nothing is in excess: the whole inlet
\* fuel is consumed, all its carbon and hydrogen leave as CO2 and H2O
LeanResidual(c, fluid, res) ==
    IF c.variant = "stoich"
    THEN fluid = FuelName(c)
            => res = RAdd(RNeg(st_m_fuel(c)), InOutBalance(c.inl, c.outl, fluid))
    ELSE /\ fluid \in FuelSetOf(c)
            => res = RAdd(RNeg(RMul(rb_n_fuel(c, fluid), molar_masses[fluid])),
                          InOutBalance(CombInl(c), CombOutl(c), fluid))
         /\ fluid = "CO2"
            => res = RAdd(RMul(rb_n_c(c), molar_masses["CO2"]),
                          InOutBalance(CombInl(c), CombOutl(c), fluid))
         /\ fluid = "H2O"
            => res = RAdd(RMul(RDiv(rb_n_h(c), R(2)), molar_masses["H2O"]),
                          InOutBalance(CombInl(c), CombOutl(c), fluid))
         /\ ExcessC(c) = Zero
         /\ ExcessH(c) = Zero

\* C12: whenever the lambda of a call of reaction_balance (cached or fixed)
\* is >= 1, excess-C, excess-H and the excess fuel are 0: the fuel residual
\* consumes the whole inlet fuel, in the generic chamber, the engine and the
\* stoichiometric chamber.
C12_LeanNoExcess ==
    (ret.op = "reaction_balance" /\ ret.err = "" /\ RGe(lamb.val, One))
        => LeanResidual(Self, ret.args[1], ret.val[1])

\* reaction_balance has returned a fuel residual under a lambda fixed to a
\* lean value on inlets whose oxygen supply is short
C12_Witness ==
    /\ ret.op = "reaction_balance" /\ ret.err = ""
    /\ variant \in {"chamber", "engine"}
    /\ ret.args[1] \in FuelSetOf(Self)
    /\ lamb.is_set /\ RGe(lamb.val, One)
    /\ SupplyDisagrees(Self)
    /\ RGt(rb_n_fuel(Self, ret.args[1]), Zero)

\* the same in the stoichiometric chamber, lambda cached
C12_WitnessStoich ==
    /\ ret.op = "reaction_balance" /\ ret.err = ""
    /\ variant = "stoich"
    /\ ret.args[1] = FuelName(Self)
    /\ RGe(lamb.val, One)

\* the species that take part in the combustion of c
Reacting(c) ==
    IF c.variant = "stoich" THEN {FuelName(c), AirName(c), FlueGasName(c)}
    ELSE {"CO2", "H2O", "O2"} \cup FuelSetOf(c)

\* sum(inlet fraction * inlet flow) - sum(outlet fraction * outlet flow) over
\* the combustion streams of c
PlainBalance(c, fluid) ==
    RSub(RSumSeq([k \in 1..Len(CombInl(c)) |->
             RMul(CombInl(c)[k].fluid[fluid], CombInl(c)[k].m)]),
         RSumSeq([k \in 1..Len(CombOutl(c)) |->
             RMul(CombOutl(c)[k].fluid[fluid], CombOutl(c)[k].m)]))

\* C13: for a species that takes no part in the combustion, the residual
\* that reaction_balance returns is the plain inlet-minus-outlet balance of
\* that species, whatever lambda is.
C13_InertBalance ==
    (ret.op = "reaction_balance" /\ ret.err = "" /\ ret.args[1] \notin Reacting(Self))
        => ret.val = <<PlainBalance(Self, ret.args[1])>>

\* reaction_balance has returned the residual of nitrogen on a rich state of
\* the engine, and the balance is not closed
C13_Witness ==
    /\ ret.op = "reaction_balance" /\ ret.err = ""
    /\ variant = "engine"
    /\ ret.args[1] = "N2"
    /\ RLt(lamb.val, One)
    /\ ret.val # <<Zero>>

\* ------------------------------------------------------------------------
\* Properties of the residual vector
\* ------------------------------------------------------------------------
\* the parameters whose equation is optional, per class
OptionalNames(v) ==
    IF v = "engine" THEN {"lamb", "ti"} \cup LoopNames ELSE {"lamb", "ti"}
CharNames == {"tiP_char", "Q1_char", "Q2_char", "Qloss_char"}
AllOptionalNames == {"lamb", "ti"} \cup LoopNames

\* how often label n occurs in names
Occurrences(names, n) == Cardinality({k \in 1..Len(names) : names[k] = n})

\* C14: the residual vector equations() returns holds the equation of an
\* optional parameter (lamb, ti, and Q1, Q2, pr1, pr2, zeta1, zeta2 of the
\* engine) once if that parameter is fixed by the user and not at all
\* otherwise, whatever the other flags are; the four characteristic
\* equations of the engine are always there
C14_OptionalGated ==
    (ret.op = "equations" /\ ret.err = "")
        => /\ Len(ret.val.vec) = Len(ret.val.names)
           /\ \A n \in AllOptionalNames :
                 Occurrences(ret.val.names, n) =
                     IF n \in OptionalNames(variant) /\ Self[n].is_set
                     THEN 1 ELSE 0
           /\ \A n \in CharNames :
                 Occurrences(ret.val.names, n) =
                     IF variant = "engine" THEN 1 ELSE 0

C14_Witness ==
    /\ ret.op = "equations"
    /\ ret.err = ""
    /\ variant = "engine"
    /\ Q1.is_set /\ pr2.is_set /\ ti.is_set
    /\ ~Q2.is_set /\ ~pr1.is_set /\ ~zeta1.is_set /\ ~lamb.is_set
    /\ Occurrences(ret.val.names, "pr2") = 1
    /\ Occurrences(ret.val.names, "zeta1") = 0
    /\ ret.val.vec[Len(ret.val.vec)] = pr2_func(Self)

\* ------------------------------------------------------------------------
\* Properties of the thermal input
\* ------------------------------------------------------------------------
\* mass flow of species f carried by stream s
Carried(s, f) == RMul(s.m, s.fluid[f])

\* the fuel f the streams ins bring in less the fuel the streams outs take out
FuelBurnt(ins, outs, f) ==
    RSub(RSumSeq([k \in 1..Len(ins) |-> Carried(ins[k], f)]),
         RSumSeq([k \in 1..Len(outs) |-> Carried(outs[k], f)]))

\* the thermal input: of the engine over in3, in4 and out3, of the chambers
\* over every stream; per fuel with its LHV
ThermalInput ==
    IF variant = "stoich"
    THEN RMul(lhv, FuelBurnt(inl, outl, FuelName(Self)))
    ELSE LET ins == IF variant = "engine" THEN <<inl[3], inl[4]>> ELSE inl
             outs == IF variant = "engine" THEN <<outl[3]>> ELSE outl
         IN  RSumSeq([j \in 1..Len(fuel_list) |->
                 RMul(fuels[fuel_list[j]], FuelBurnt(ins, outs, fuel_list[j]))])

\* C15: calc_ti returns, summed over the fuels, the LHV of the fuel times
\* the fuel the inlets bring in less the fuel the outlets take out, the
\* engine counting in3, in4 and out3 only; ti_func returns the fixed thermal
\* input less that value
C15_ThermalInput ==
    /\ ret.op = "calc_ti" => ret.val = <<ThermalInput>>
    /\ ret.op = "ti_func" => ret.val = <<RSub(ti.val, ThermalInput)>>

C15_Witness ==
    /\ ret.op = "calc_ti"
    /\ variant = "engine"
    /\ RGt(Carried(inl[1], "CH4"), Zero)
    /\ RGt(ret.val[1], Zero)

C15_WitnessTiFunc ==
    /\ ret.op = "ti_func"
    /\ variant = "stoich"
    /\ ret.val # <<ti.val>>

\* ------------------------------------------------------------------------
\* Properties of the lower heating value
\* ------------------------------------------------------------------------
\* the component is set up and methane is one of its fuels
MethaneStored ==
    /\ phase = "ready"
    /\ variant \in {"chamber", "engine"}
    /\ "CH4" \in DOMAIN fuels

\* -(4/2 * hf(H2O) + 1 * hf(CO2) - (1 + 1) * hf(O2)) / M(CH4) * 1000
LhvFromProducts ==
    RMul(RDiv(RNeg(RSub(RAdd(RMul(Q(4, 2), hf["H2O"]), RMul(R(1), hf["CO2"])),
                        RMul(R(1 + 1), hf["O2"]))),
              molar_masses["CH4"]),
         R(1000))

\* -(4/2 * hf(H2O) + 1 * hf(CO2) - ((1 + 1) * hf(O2) + hf(CH4))) / M(CH4) * 1000
LhvFromReaction ==
    RMul(RDiv(RNeg(RSub(RAdd(RMul(Q(4, 2), hf["H2O"]), RMul(R(1), hf["CO2"])),
                        RAdd(RMul(R(1 + 1), hf["O2"]), hf["CH4"]))),
              molar_masses["CH4"]),
         R(1000))

\* C16 (as stated): the LHV stored for methane is
\* -(4/2 * (-241.8) + 1 * (-393.5) - (1 + 1) * 0) / M(CH4) * 1000
C16_ProductsOnly == MethaneStored => fuels["CH4"] = LhvFromProducts

\* C16: the LHV stored for methane is
\* -(4/2 * (-241.8) + 1 * (-393.5) - ((1 + 1) * 0 + (-74.85))) / M(CH4) * 1000:
\* the formation enthalpy of methane itself is part of the educts
C16_WithFuelEnthalpy == MethaneStored => fuels["CH4"] = LhvFromReaction

C16_Witness ==
    /\ MethaneStored
    /\ fuels["CH4"] = R(50140625)
    /\ LhvFromProducts = R(54818750)

\* ------------------------------------------------------------------------
\* Properties of convergence_check
\* ------------------------------------------------------------------------
\* the streams of the combustion, inlets first
CombStreams == CombInl(Self) \o CombOutl(Self)

\* the solver may move the mass flow of stream s_
FreeFlow(s_) == ~s_.m_set /\ ~s_.init_csv

\* C17: after convergence_check has returned, no inlet and no outlet of the
\* combustion whose mass flow is neither fixed by the user nor initialised
\* from a file carries a negative mass flow
C17_NoNegativeFlow ==
    (ret.op = "convergence_check" /\ ret.err = "")
        => \A k \in 1..Len(CombStreams) :
              FreeFlow(CombStreams[k]) => RGe(CombStreams[k].m, Zero)

\* the total fuel fraction of stream s_
FuelFraction(s_) ==
    RSumSeq([j \in 1..Len(fuel_list) |-> s_.fluid[fuel_list[j]]])

\* inlet k of the combustion is the fuel inlet with a free flow, the other
\* one the air inlet (convergence_check changes none of these fields)
FuelAt(k) ==
    /\ RGt(FuelFraction(CombInl(Self)[k]), Q(3, 4))
    /\ ~CombInl(Self)[k].m_set
    /\ RLt(FuelFraction(CombInl(Self)[3 - k]), Q(3, 4))

\* C18: when convergence_check of the generic chamber or the engine has
\* returned with lambda not fixed and below 2, the flow of the fuel inlet is
\* 1/25 of the flow of the air inlet, at whichever port the fuel comes in
C18_FuelRescaled ==
    (/\ ret.op = "convergence_check"
     /\ ret.err = ""
     /\ variant \in {"chamber", "engine"}
     /\ ~lamb.is_set
     /\ RLt(lamb.val, R(2)))
        => \A k \in 1..2 :
              FuelAt(k) => CombInl(Self)[k].m
                               = RDiv(CombInl(Self)[3 - k].m, R(25))

\* ------------------------------------------------------------------------
\* Properties of the engine's cooling loops
\* ------------------------------------------------------------------------
\* other states of the two cooling loops: <<in1, in2, out1, out2>>
LoopStates ==
    {<<CoolIn, CoolIn, CoolOut, CoolOut>>,
     <<CoolInOff, CoolIn, CoolOut, CoolOut>>,
     <<CoolOut, CoolInOff, CoolInOff, CoolIn>>,
     <<MSet(CoolInOff), FromCsv(CoolInOff), CoolIn, AllSet(CoolInOff)>>}

\* the engine c with its cooling loops in state l
WithLoops(c, l) ==
    [c EXCEPT !.inl[1] = l[1], !.inl[2] = l[2], !.outl[1] = l[3],
              !.outl[2] = l[4]]

\* reaction_balance(fluid) has the outcome res, lam on the engine c
SameBalance(c, fluid, res, lam, r) ==
    r.err = "" /\ r.res = res /\ r.c.lamb.val = lam

\* the equations of the cooling loops in the residual vector vec of an
\* engine with n fluids: after the n reaction balances, for loop i and
\* species number j the difference of the fractions at inlet i and outlet i
LoopFractions(vec, names, n) ==
    /\ Occurrences(names, "fluid") = 2 * n
    /\ \A i \in 1..2, j \in 1..n :
          /\ names[i * n + j] = "fluid"
          /\ vec[i * n + j] = RSub(inl[i].fluid[nw_fluids[j]],
                                   outl[i].fluid[nw_fluids[j]])

\* C19: on the engine the value reaction_balance returns and the lambda it
\* caches are the same in every engine state that differs from the current
\* one in the streams of the cooling loops (in1, in2, out1, out2) only; the
\* cooling loops add to the residual vector one equation per species and
\* loop, the fraction at the inlet less the fraction at the outlet
C19_LoopsApart ==
    /\ (ret.op = "reaction_balance" /\ ret.err = "" /\ variant = "engine")
          => \A l \in LoopStates :
                SameBalance(Self, ret.args[1], ret.val[1], lamb.val,
                            reaction_balance(WithLoops(Self, l), ret.args[1]))
    /\ (ret.op = "equations" /\ ret.err = "" /\ variant = "engine")
          => LoopFractions(ret.val.vec, ret.val.names, Len(nw_fluids))

C19_Witness ==
    /\ ret.op = "reaction_balance"
    /\ ret.err = ""
    /\ variant = "engine"
    /\ inl[1] = CoolInOff
    /\ ret.args = <<"O2">>
    /\ ~lamb.is_set
    /\ RGt(lamb.val, Zero)
    /\ ret.val # <<Zero>>

C19_WitnessEquations ==
    /\ ret.op = "equations"
    /\ ret.err = ""
    /\ variant = "engine"
    /\ inl[1] = CoolInOff
    /\ ret.val.vec[Len(nw_fluids) + 1] = Q(1, 4)

\* ------------------------------------------------------------------------
\* Properties of the stoichiometric oxygen demand
\* ------------------------------------------------------------------------
\* C20: in every evaluation of reaction_balance of the generic chamber and
\* the engine the stoichiometric oxygen demand n_h / 4 + n_c is not
\* negative, also in the states before convergence_check in which an inlet
\* flow that is not fixed is negative
C20_DemandNonNegative ==
    (ret.op = "reaction_balance" /\ variant \in {"chamber", "engine"})
        => RGe(rb_n_oxygen_stoich(Self), Zero)

\* ------------------------------------------------------------------------
\* Properties of the cached lambda under the numerical derivatives
\* ------------------------------------------------------------------------
\* C21: with lambda not fixed, a call rb_numeric_deriv(dx, pos, fluid) that
\* returns leaves lamb.val at the value it had before the call, also when
\* pos is an inlet of the combustion
C21_LambdaRestored ==
    [][(ret'.op = "rb_numeric_deriv" /\ ret'.err = "" /\ ~lamb.is_set)
         => lamb'.val = lamb.val]_vars

\* ------------------------------------------------------------------------
\* Properties of the excess fuel
\* ------------------------------------------------------------------------
\* fuel_moles - O2_actual / (n_C + 0.25 * n_H) with the atom counts of fluid
FuelExcessOwnAtoms(c, fluid) ==
    RSub(rb_n_fuel(c, fluid), RDiv(rb_n_oxygen(c), OxygenPerMole(fluid)))

\* C22: for lambda < 1 the residual of a fuel is built from the excess
\* fuel_moles - O2_actual / (n_C + 0.25 * n_H), n_C and n_H being the atom
\* counts of the fuel that is balanced
C22_OwnAtomCounts ==
    (/\ ret.op = "reaction_balance"
     /\ ret.err = ""
     /\ variant \in {"chamber", "engine"}
     /\ ret.args[1] \in FuelSetOf(Self)
     /\ RLt(lamb.val, One))
        => ret.val[1] =
              RAdd(RNeg(RMul(RSub(rb_n_fuel(Self, ret.args[1]),
                                  FuelExcessOwnAtoms(Self, ret.args[1])),
                             molar_masses[ret.args[1]])),
                   InOutBalance(CombInl(Self), CombOutl(Self), ret.args[1]))

SpeciesResiduals(vec) == RSumSeq([k \in 1..Len(nw_fluids) |-> vec[k]])

\* what the combustion inlets bring in less what the combustion outlet
\* takes out, summed over the species
SpeciesInOut(c) ==
    RSumSeq([k \in 1..Len(c.fluids) |->
        InOutBalance(CombInl(c), CombOutl(c), c.fluids[k])])

\* C24: in the generic chamber and the engine with lambda not fixed, the
\* net production terms dm of all species (CO2, H2O, O2, the fuels; 0 for
\* the others) sum to 0, for lambda >= 1 and for lambda < 1: the species
\* residuals of equations() sum to the balance of the streams
C24_ReactionConservesMass ==
    (/\ ret.op = "equations"
     /\ ret.err = ""
     /\ variant \in {"chamber", "engine"}
     /\ ~lamb.is_set)
        => SpeciesResiduals(ret.val.vec) = SpeciesInOut(Self)

\* m_fuel_exc of the stoichiometric chamber: m_fuel - m_air / (lambda * air_min)
StoichFuelExcess(c) ==
    RSub(st_m_fuel(c), RDiv(st_m_air(c), RMul(c.lamb.val, c.air_min)))

\* C25: in the stoichiometric chamber the net production terms of air, fuel
\* and flue gas sum to 0, for lambda >= 1 and for lambda < 1 (the species
\* residuals of equations() sum to the balance of the streams), and for a
\* lambda below 1 that is not fixed the excess fuel
\* m_fuel - m_air / (lambda * air_min) is strictly positive
C25_StoichConservesMass ==
    (ret.op = "equations" /\ ret.err = "" /\ variant = "stoich")
        => /\ SpeciesResiduals(ret.val.vec) = SpeciesInOut(Self)
           /\ (~lamb.is_set /\ RLt(lamb.val, One))
                 => RGt(StoichFuelExcess(Self), Zero)

\* the lambda calc_parameters reports is the one reaction_balance caches
\* on the same combustion streams
ReportedIsCached ==
    (/\ ret.op = "calc_parameters" /\ ret.err = ""
     /\ variant \in {"chamber", "engine"}
     /\ CachedLambda(Self).err = "")
        => lamb.val = CachedLambda(Self).c.lamb.val

\* a call of calc_parameters on a component whose fixed lambda satisfies
\* lambda_func() = 0 leaves lamb.val alone
FixedLambdaKept ==
    (/\ ret.op = "" /\ ret'.op = "calc_parameters" /\ ret'.err = ""
     /\ variant \in {"chamber", "engine"}
     /\ lamb.is_set
     /\ lambda_func(Self).err = "" /\ IsZero(lambda_func(Self).res))
        => lamb'.val = lamb.val

DerivativesPass ==
    /\ ret.op = "" /\ ret'.op = "derivatives" /\ ret'.err = ""
    /\ variant \in {"chamber", "engine"}

\* after the pass the cached lambda is the one of the stream state before it
LambdaAfterPass ==
    (DerivativesPass /\ ~lamb.is_set /\ CachedLambda(Self).err = "")
        => lamb'.val = CachedLambda(Self).c.lamb.val

\* equations() returns the same residuals after the pass as before it
ResidualsAfterPass ==
    (DerivativesPass /\ equations(Self).err = "")
        => /\ equations(Self').err = ""
           /\ equations(Self').vec = equations(Self).vec

\* C27: for the generic chamber and the engine with lambda not fixed, the
\* lambda cached after a complete derivatives() is the one of the
\* unperturbed stream state, the value equations() caches, and in any
\* sequence equations(); derivatives(); equations() the two calls of
\* equations() return the same residual vector
C27_DerivativesLeaveLambda ==
    [][LambdaAfterPass /\ ResidualsAfterPass]_vars

\* the groups of the rows of a Jacobian, row by row
RowGroups(jac) == [k \in 1..Len(jac) |-> jac[k].name]

\* C28: for every combination of fixed parameters the Jacobian derivatives()
\* returns has as many rows as equations() has residuals, and the rows
\* follow the same order of equation groups (reaction balance, cooling-loop
\* fluid, mass flow, pressure, energy balance, characteristics, lambda, ti,
\* Q1, Q2, pr1, pr2, zeta1, zeta2), in all three variants
C28_RowsMatchResiduals ==
    (ret.op = "derivatives" /\ ret.err = "")
        => /\ equations(Self).err = ""
           /\ Len(ret.val.jac) = Len(equations(Self).vec)
           /\ RowGroups(ret.val.jac) = equations(Self).names

C28_Witness ==
    /\ ret.op = "derivatives" /\ ret.err = ""
    /\ variant = "engine"
    /\ ti.is_set /\ Q1.is_set /\ ~Q2.is_set /\ pr1.is_set /\ ~pr2.is_set
    /\ ~zeta1.is_set /\ zeta2.is_set
    /\ Len(ret.val.jac) = Len(nw_fluids) + 2 * Len(nw_fluids) + 15

C28_WitnessChamber ==
    /\ ret.op = "derivatives" /\ ret.err = ""
    /\ variant = "stoich"
    /\ ti.is_set /\ ~lamb.is_set
    /\ Len(ret.val.jac) = Len(nw_fluids) + 5

\* the residuals of equations() after those of the reaction balance, at
\* the streams and parameters of c
ResidualsAfterRb(c) ==
    eq_mandatory_tail(c) \o <<energy_balance(c).res>> \o eq_chars(c)
    \o eq_optional(c).vec

\* c with the variable of column col of stream pos raised by 1
Bump(c, pos, col) ==
    LET s == GetStream(c, pos)
    IN  CASE col = "m" -> SetStream(c, pos, [s EXCEPT !.m = RAdd(@, One)])
          [] col = "p" -> SetStream(c, pos, [s EXCEPT !.p = RAdd(@, One)])
          [] col = "h" -> SetStream(c, pos, [s EXCEPT !.h = RAdd(@, One)])
          [] OTHER -> SetStream(c, pos, [s EXCEPT !.fluid[col] = RAdd(@, One)])

\* the partial derivative of residual number k with respect to the variable
\* of an entry, for a residual that is linear in that variable
ExactPartial(c, k, e) ==
    RSub(ResidualsAfterRb(Bump(c, e.pos, e.col))[k - Len(c.fluids)],
         ResidualsAfterRb(c)[k - Len(c.fluids)])

\* the entries the statement is about: the rows of mass flow, pressure, pr1,
\* pr2, Q1, Q2, the ti row of the generic chamber, and the enthalpy column
\* of the row of the energy balance
LinearEntry(c, row, e) ==
    \/ row.name \in {"mass_flow", "pressure", "pr1", "pr2", "Q1", "Q2"}
    \/ row.name = "ti" /\ c.variant = "chamber"
    \/ row.name = "energy_balance" /\ e.col = "h"

EntriesExact(c, jac) ==
    \A k \in 1..Len(jac) : \A e \in jac[k].cf :
        LinearEntry(c, jac[k], e) => e.val = ExactPartial(c, k, e)

\* C30: every entry derivatives() writes in closed form for a residual that
\* is linear in the variable is the exact partial derivative at the current
\* state, also when the mass balance is not satisfied: the blocks of mass
\* flow and pressure, the rows of pr1, pr2, Q1 and Q2, the ti row of the
\* generic chamber and the enthalpy column of the row of the energy balance
\* (engine: minus the inlet mass flow of the loop for the enthalpy of a
\* cooling-loop outlet)
C30_ClosedFormExact ==
    (ret.op = "derivatives" /\ ret.err = "" /\ energy_balance(Self).err = "")
        => EntriesExact(Self, ret.val.jac)

\* the quantities of stream s that the user fixed are those of stream t
StreamFixedKept(s, t) ==
    /\ s.m_set => t.m = s.m
    /\ s.h_set => t.h = s.h
    /\ \A f \in DOMAIN s.fluid : s.fluid_set[f] => t.fluid[f] = s.fluid[f]

\* a step keeps every fixed quantity of every stream and a fixed lambda,
\* and the flags themselves
FixedKept ==
    /\ \A k \in 1..Len(inl) : StreamFixedKept(inl[k], inl'[k])
    /\ \A k \in 1..Len(outl) : StreamFixedKept(outl[k], outl'[k])
    /\ \A k \in 1..Len(inl) : /\ inl'[k].m_set = inl[k].m_set
                              /\ inl'[k].h_set = inl[k].h_set
                              /\ inl'[k].fluid_set = inl[k].fluid_set
    /\ \A k \in 1..Len(outl) : /\ outl'[k].m_set = outl[k].m_set
                               /\ outl'[k].h_set = outl[k].h_set
                               /\ outl'[k].fluid_set = outl[k].fluid_set
    /\ lamb.is_set => lamb' = lamb

\* C29: convergence_check and initialise_fluids never change a quantity the
\* user fixed (a stream's mass flow, enthalpy or mass fraction whose flag
\* is set, a fixed lambda), in all three variants
C29_FixedUntouched ==
    [][ret'.op \in {"convergence_check", "initialise_fluids"} => FixedKept]_vars

\* convergence_check has rewritten the free quantities next to fixed ones
C29_Witness ==
    /\ ret.op = "convergence_check" /\ ret.err = ""
    /\ variant \in {"chamber", "engine"}
    /\ CombOutl(Self)[1].fluid_set["O2"] /\ ~CombOutl(Self)[1].fluid_set["CO2"]
    /\ CombOutl(Self)[1].fluid["O2"] = Q(3, 10)
    /\ CombOutl(Self)[1].fluid["CO2"] = Q(75, 1000)
    /\ CombOutl(Self)[1].h = R(1000000)
    /\ \E k \in 1..Len(CombInl(Self)) :
          CombInl(Self)[k].m_set /\ RLt(CombInl(Self)[k].m, Zero)
    /\ \E k \in 1..Len(CombInl(Self)) :
          ~CombInl(Self)[k].m_set /\ CombInl(Self)[k].m = Q(-1, 2500)

\* initialise_fluids has written the start values next to a fixed fraction
C29_WitnessInitialise ==
    /\ ret.op = "initialise_fluids" /\ ret.err = ""
    /\ variant \in {"chamber", "engine"}
    /\ CombOutl(Self)[1].fluid_set["O2"] /\ ~CombOutl(Self)[1].fluid_set["CO2"]
    /\ CombOutl(Self)[1].fluid["O2"] = Q(3, 10)
    /\ CombOutl(Self)[1].fluid["CO2"] = if_fg(Self)["CO2"]

\* the stoichiometric chamber has reset a free lambda and kept a fixed flow
C29_WitnessStoich ==
    /\ ret.op = "convergence_check" /\ ret.err = ""
    /\ variant = "stoich"
    /\ ~lamb.is_set /\ lamb.val = R(2)
    /\ inl[1].m_set /\ RLt(inl[1].m, Zero)
    /\ ~inl[2].m_set /\ inl[2].m = Q(1, 100)

====
